---------------------------- MODULE Spec2Model ----------------------------
(***************************************************************************)
(* A model of sfzlint: the opcode identity normalizer (OpcodeIntRepl), the *)
(* validation engine (validate_opcode_expr and the special validators) and *)
(* the document builder (SFZValidator, a lark Transformer walking the      *)
(* nodes of an SFZ file in document order).                                *)
(*                                                                         *)
(* Text is modelled as a sequence of one-character strings, so that the    *)
(* regular expressions, str(), int(), lower() of the code are computed and *)
(* not assumed.                                                            *)
(***************************************************************************)
EXTENDS Integers, Sequences, FiniteSets, TLC

VARIABLES
    nm,        \* SpecNorm: the opcode name handed to OpcodeIntRepl.sub
    res,       \* SpecNorm: the result of OpcodeIntRepl.sub
    rt,        \* SpecNorm: the template with its bindings substituted back
    phase,     \* SpecNorm: "input" | "normalized" | "resub"; SpecSample: "sample" | "validated";
               \* SpecHeaderList: "headerlist"; SpecLint: the loop that runs, "lint" |
               \* "lint_xml" (no Define in the program) | "lint_xml_defines"
    fold,      \* SpecSample: the file system matches names without regard to case
    pc,        \* "idle" | "walk" (transform is running) | "done" (it returned) |
               \* "raised" (an exception left validate and lint_sfz)
    cfg,       \* SFZValidator.config, the fields of SFZValidatorConfig
    stack,     \* the _load_include calls in progress: old_conf and inc_path
    headers,   \* config.sfz.headers._headers
    counts,    \* config.sfz.headers.counts
    defines,   \* config.sfz.defines
    includes,  \* config.sfz.includes
    current_header,  \* SFZValidator.current_header: an index of headers, 0 for None
    curveccs,  \* SFZValidator._curveccs
    diags,     \* what err_cb was called with in this run, in order
    input,     \* the callbacks of the first run, in order (later runs replay them)
    cursor,    \* the number of callbacks of this run so far
    mark,      \* Len(diags) before the last callback
    run,       \* the number of the validate_s call on this config object
    first,     \* the diags of the first run; SpecLint: the diags of each file done
    vlog,      \* history: the calls of validate_opcode_expr / validate_curvecc
    curveRuns, \* history: the calls of _validate_curvecc in this run
    vocab      \* the input language the walk draws its nodes from

normVars == <<nm, res, rt, phase, fold>>

walkVars == <<pc, cfg, stack, headers, counts, defines, includes, current_header,
              curveccs, diags, input, cursor, mark, run, first, vlog, curveRuns, vocab>>

vars == <<normVars, walkVars>>

---------------------------------------------------------------------------
(* Characters and text                                                     *)

Lower == {"a","b","c","d","e","f","g","h","i","j","k","l","m",
          "n","o","p","q","r","s","t","u","v","w","x","y","z"}

Upper == {"A","B","C","D","E","F","G","H","I","J","K","L","M",
          "N","O","P","Q","R","S","T","U","V","W","X","Y","Z"}

Digit == {"0","1","2","3","4","5","6","7","8","9"}

DigitVal(c) ==
    CASE c = "0" -> 0 [] c = "1" -> 1 [] c = "2" -> 2 [] c = "3" -> 3
      [] c = "4" -> 4 [] c = "5" -> 5 [] c = "6" -> 6 [] c = "7" -> 7
      [] c = "8" -> 8 [] c = "9" -> 9

DigitChar(d) ==
    CASE d = 0 -> "0" [] d = 1 -> "1" [] d = 2 -> "2" [] d = 3 -> "3"
      [] d = 4 -> "4" [] d = 5 -> "5" [] d = 6 -> "6" [] d = 7 -> "7"
      [] d = 8 -> "8" [] d = 9 -> "9"

\* int(num) for a run of decimal digits
RECURSIVE IntOfDigits(_)
IntOfDigits(ds) ==
    IF ds = <<>> THEN 0
    ELSE 10 * IntOfDigits(SubSeq(ds, 1, Len(ds) - 1)) + DigitVal(ds[Len(ds)])

\* str(n) for a natural number
RECURSIVE NatToText(_)
NatToText(n) ==
    IF n < 10 THEN <<DigitChar(n)>>
    ELSE NatToText(n \div 10) \o <<DigitChar(n % 10)>>

\* str(n) for an integer
IntToText(n) == IF n < 0 THEN <<"-">> \o NatToText(-n) ELSE NatToText(n)

\* the end of the maximal digit run of s that starts at i
RECURSIVE DigitRunEnd(_, _)
DigitRunEnd(s, i) ==
    IF i < Len(s) /\ s[i + 1] \in Digit THEN DigitRunEnd(s, i + 1) ELSE i

\* str.endswith('cc')
EndsWithCC(pre) ==
    Len(pre) >= 2 /\ pre[Len(pre) - 1] = "c" /\ pre[Len(pre)] = "c"

---------------------------------------------------------------------------
(* OpcodeIntRepl: opcodes with numeric components to their index form      *)

subs == <<"N", "X", "Y">>

ignore == { <<"v","e","l","2">>,
            <<"c","u","t","o","f","f","2">>,
            <<"r","e","s","o","n","a","n","c","e","2">>,
            <<"w","a","v","e","2">> }

\* the highest control-code number OpcodeIntRepl accepts
MaxControlCode == 127

\* The integer recorded for a placeholder.
Bind(num) == IntOfDigits(num)

\* A mutant of OpcodeIntReplCall: the placeholder index is never advanced.
OpcodeIntReplCallStuck(pre, num, index) ==
    IF (pre \o num) \in ignore
    THEN [st |-> "ok", text |-> pre \o num, index |-> index, bound |-> FALSE]
    ELSE IF index >= Len(subs)
    THEN [st |-> "error", text |-> pre \o num, index |-> index, bound |-> FALSE]
    ELSE IF EndsWithCC(pre) /\ IntOfDigits(num) > MaxControlCode
    THEN [st |-> "badcc", text |-> num, index |-> index, bound |-> FALSE]
    ELSE [st |-> "ok", text |-> pre \o <<subs[1]>>, index |-> index, bound |-> TRUE]

\* A mutant of OpcodeIntReplCall: control codes are not range-checked.
OpcodeIntReplCallAnyCC(pre, num, index) ==
    IF (pre \o num) \in ignore
    THEN [st |-> "ok", text |-> pre \o num, index |-> index, bound |-> FALSE]
    ELSE IF index >= Len(subs)
    THEN [st |-> "error", text |-> pre \o num, index |-> index, bound |-> FALSE]
    ELSE [st |-> "ok", text |-> pre \o <<subs[index + 1]>>,
          index |-> index + 1, bound |-> TRUE]

\* OpcodeIntRepl.__call__ on one match (pre)(num) of ([a-z]*)(\d+), with
\* self.index = index.  st: "ok" (text is the replacement), "error"
\* (ValidationError: unexpected number) or "badcc" (ValidationWarning:
\* <num> is not a valid control code).
OpcodeIntReplCall(pre, num, index) ==
    IF (pre \o num) \in ignore
    THEN [st |-> "ok", text |-> pre \o num, index |-> index, bound |-> FALSE]
    ELSE IF index >= Len(subs)
    THEN [st |-> "error", text |-> pre \o num, index |-> index, bound |-> FALSE]
    ELSE IF EndsWithCC(pre) /\ IntOfDigits(num) > MaxControlCode
    THEN [st |-> "badcc", text |-> num, index |-> index + 1, bound |-> FALSE]
    ELSE [st |-> "ok", text |-> pre \o <<subs[index + 1]>>,
          index |-> index + 1, bound |-> TRUE]

\* re.sub(r'([a-z]*)(\d+)', OpcodeIntRepl(raw), raw) scanning from i:
\* pre is the run of lowercase letters read and not yet copied, out the
\* text produced so far, binds the integers recorded so far.
RECURSIVE SubScan(_, _, _, _, _, _)
SubScan(s, i, pre, out, index, binds) ==
    IF i > Len(s)
    THEN [st |-> "ok", template |-> out \o pre, binds |-> binds, arg |-> <<>>]
    ELSE IF s[i] \in Lower
    THEN SubScan(s, i + 1, Append(pre, s[i]), out, index, binds)
    ELSE IF s[i] \in Digit
    THEN LET j == DigitRunEnd(s, i)
             num == SubSeq(s, i, j)
             r == OpcodeIntReplCall(pre, num, index)
         IN  IF r.st = "ok"
             THEN SubScan(s, j + 1, <<>>, out \o r.text, r.index,
                          IF r.bound THEN Append(binds, Bind(num)) ELSE binds)
             ELSE [st |-> r.st, template |-> <<>>, binds |-> <<>>, arg |-> r.text]
    ELSE SubScan(s, i + 1, <<>>, (out \o pre) \o <<s[i]>>, index, binds)

NoResult == [st |-> "none", template |-> <<>>, binds |-> <<>>, arg |-> <<>>]

\* OpcodeIntRepl.sub
Sub(raw) == SubScan(raw, 1, <<>>, <<>>, 0, <<>>)

\* The position of placeholder c in subs (0 when c is no placeholder).
SubsIndex(c) == IF c = "N" THEN 1 ELSE IF c = "X" THEN 2 ELSE IF c = "Y" THEN 3 ELSE 0

\* The template with each placeholder replaced by str() of its binding.
RECURSIVE Resubstitute(_, _)
Resubstitute(template, binds) ==
    IF template = <<>> THEN <<>>
    ELSE LET c == Head(template)
             k == SubsIndex(c)
         IN  (IF k > 0 /\ k <= Len(binds) THEN NatToText(binds[k]) ELSE <<c>>)
             \o Resubstitute(Tail(template), binds)

---------------------------------------------------------------------------
(* Typed values: what _sanitize_token makes of a token's text               *)

\* A sanitized token: t is the type of token.value ("int", "float", "note",
\* "str"), s the token's text (str(value)); an int or a note has the number
\* n, a float the number n / 10^d.
IntValue(n) == [t |-> "int", n |-> n, d |-> 0, s |-> IntToText(n)]
StrValue(s) == [t |-> "str", n |-> 0, d |-> 0, s |-> s]
NoteValue(n, s) == [t |-> "note", n |-> n, d |-> 0, s |-> s]
NoValue == [t |-> "none", n |-> 0, d |-> 0, s |-> <<>>]

RECURSIVE Pow10(_)
Pow10(k) == IF k = 0 THEN 1 ELSE 10 * Pow10(k - 1)

\* a float n / 10^d in lowest terms of 10 with at least one decimal, as
\* repr() prints it
RECURSIVE FloatNorm(_, _)
FloatNorm(n, d) == IF d > 1 /\ n % 10 = 0 THEN FloatNorm(n \div 10, d - 1) ELSE [n |-> n, d |-> d]

RECURSIVE PadZeros(_, _)
PadZeros(ds, k) == IF Len(ds) >= k THEN ds ELSE PadZeros(<<"0">> \o ds, k)

FloatText(n, d) ==
    LET a == IF n < 0 THEN -n ELSE n
        frac == PadZeros(NatToText(a % Pow10(d)), d)
    IN  ((IF n < 0 THEN <<"-">> ELSE <<>>) \o NatToText(a \div Pow10(d)))
        \o (<<".">> \o frac)

FloatValue(n, d) ==
    LET f == FloatNorm(n, d)
    IN  [t |-> "float", n |-> f.n, d |-> f.d, s |-> FloatText(f.n, f.d)]

AllDigits(ds) == ds # <<>> /\ \A i \in 1..Len(ds) : ds[i] \in Digit

Unsigned(text) ==
    IF text # <<>> /\ text[1] \in {"-", "+"} THEN Tail(text) ELSE text

Negative(text) == text # <<>> /\ text[1] = "-"

\* int(text) succeeds: an optional sign and decimal digits
IsIntText(text) == AllDigits(Unsigned(text))

IntOfText(text) ==
    IF Negative(text) THEN -IntOfDigits(Unsigned(text)) ELSE IntOfDigits(Unsigned(text))

DotAt(text) ==
    IF \E i \in 1..Len(text) : text[i] = "."
    THEN CHOOSE i \in 1..Len(text) : text[i] = "." /\ \A j \in 1..(i - 1) : text[j] # "."
    ELSE 0

\* float(text) succeeds on a decimal literal: sign, digits, '.', digits
IsFloatText(text) ==
    LET u == Unsigned(text)
        k == DotAt(u)
    IN  /\ k > 1
        /\ k < Len(u)
        /\ AllDigits(SubSeq(u, 1, k - 1))
        /\ AllDigits(SubSeq(u, k + 1, Len(u)))

FloatOfText(text) ==
    LET u == Unsigned(text)
        k == DotAt(u)
        d == Len(u) - k
        a == IntOfDigits(SubSeq(u, 1, k - 1)) * Pow10(d) + IntOfDigits(SubSeq(u, k + 1, Len(u)))
    IN  FloatValue(IF Negative(text) THEN -a ELSE a, d)

UpperIndex(c) == CHOOSE i \in 1..26 : <<"A","B","C","D","E","F","G","H","I","J","K","L","M","N","O","P","Q","R","S","T","U","V","W","X","Y","Z">>[i] = c

\* str.lower()
LowerChar(c) ==
    IF c \in Upper
    THEN <<"a","b","c","d","e","f","g","h","i","j","k","l","m","n","o","p","q","r","s","t","u","v","w","x","y","z">>[UpperIndex(c)]
    ELSE c

\* A mutant of ToLower: the text is kept as written.
ToLowerKeepsCase(text) == text

ToLower(text) == [i \in 1..Len(text) |-> LowerChar(text[i])]

\* Note.notemap
notemap == { <<<<"c">>, 0>>, <<<<"c","#">>, 1>>, <<<<"d","b">>, 1>>, <<<<"d">>, 2>>,
             <<<<"d","#">>, 3>>, <<<<"e","b">>, 3>>, <<<<"e">>, 4>>, <<<<"f">>, 5>>,
             <<<<"f","#">>, 6>>, <<<<"g","b">>, 6>>, <<<<"g">>, 7>>, <<<<"g","#">>, 8>>,
             <<<<"a","b">>, 8>>, <<<<"a">>, 9>>, <<<<"a","#">>, 10>>, <<<<"b","b">>, 10>>,
             <<<<"b">>, 11>> }

NoteKey(text) == ToLower(SubSeq(text, 1, Len(text) - 1))

\* Note(text) succeeds: a key of notemap followed by one octave digit
IsNoteText(text) ==
    /\ text # <<>>
    /\ text[Len(text)] \in Digit
    /\ \E e \in notemap : e[1] = NoteKey(text)

NoteOfText(text) ==
    LET e == CHOOSE e \in notemap : e[1] = NoteKey(text)
    IN  NoteValue(e[2] + DigitVal(text[Len(text)]) * 12 + 12, text)

\* str.strip() of blanks
RECURSIVE Strip(_)
Strip(text) ==
    IF text = <<>> THEN text
    ELSE IF text[1] = " " THEN Strip(Tail(text))
    ELSE IF text[Len(text)] = " " THEN Strip(SubSeq(text, 1, Len(text) - 1))
    ELSE text

\* A mutant of SanitizeToken: a quoted string is converted like a bare token.
SanitizeTokenUnquoteFirst(text) ==
    LET inner == IF text # <<>> /\ text[1] = "\"" /\ text[Len(text)] = "\""
                 THEN SubSeq(text, 2, Len(text) - 1) ELSE text
    IN  IF IsIntText(inner) THEN IntValue(IntOfText(inner))
        ELSE IF IsFloatText(inner) THEN FloatOfText(inner)
        ELSE IF IsNoteText(inner) THEN NoteOfText(inner)
        ELSE StrValue(Strip(inner))

\* SFZValidator._sanitize_token
SanitizeToken(text) ==
    IF text # <<>> /\ text[1] = "\"" /\ text[Len(text)] = "\""
    THEN StrValue(SubSeq(text, 2, Len(text) - 1))
    ELSE IF IsIntText(text) THEN IntValue(IntOfText(text))
    ELSE IF IsFloatText(text) THEN FloatOfText(text)
    ELSE IF IsNoteText(text) THEN NoteOfText(text)
    ELSE StrValue(Strip(text))

\* isinstance(token.value, v_type); a rule without a type accepts any value
IsInstance(v, vtype) ==
    CASE vtype = "int" -> v.t \in {"int", "note"}
      [] vtype = "Real" -> v.t \in {"int", "note", "float"}
      [] vtype = "str" -> v.t = "str"
      [] OTHER -> TRUE

IsNumber(v) == v.t \in {"int", "note", "float"}

\* value < bound and value > bound for a number and an integer bound
NumLess(v, bound) == v.n < bound * Pow10(v.d)
NumGreater(v, bound) == v.n > bound * Pow10(v.d)

---------------------------------------------------------------------------
(* The texts of the model's inputs and of the rule table                    *)

T_foo == <<"f","o","o">>
T_bar == <<"b","a","r">>
T_baz == <<"b","a","z">>
T_note_offset == <<"n","o","t","e","_","o","f","f","s","e","t">>
T_12 == <<"1","2">>
T_tune == <<"t","u","n","e">>
T_m400 == <<"-","4","0","0">>
T_amplitude_oncc140 == <<"a","m","p","l","i","t","u","d","e","_","o","n","c","c","1","4","0">>
T_amplitude_oncc420 == <<"a","m","p","l","i","t","u","d","e","_","o","n","c","c","4","2","0">>
T_amplitude_oncc20 == <<"a","m","p","l","i","t","u","d","e","_","o","n","c","c","2","0">>
T_75 == <<"7","5">>
T_amplitude_curvecc110 == <<"a","m","p","l","i","t","u","d","e","_","c","u","r","v","e","c","c","1","1","0">>
T_9 == <<"9">>
T_19 == <<"1","9">>
T_1 == <<"1">>
T_m1 == <<"-","1">>
T_curve_index == <<"c","u","r","v","e","_","i","n","d","e","x">>
T_hivel == <<"h","i","v","e","l">>
T_cool_key == <<"c","o","o","l","_","k","e","y">>
T_42 == <<"4","2">>
T_q42 == <<"\"","4","2","\"">>
T_ref_cool_key == <<"$","c","o","o","l","_","k","e","y">>
T_k == <<"k">>
T_ref_k == <<"$","k">>
T_region_label == <<"r","e","g","i","o","n","_","l","a","b","e","l">>
T_dir == <<"d","i","r">>
T_sub == <<"s","u","b">>
T_sm == <<"s","m">>
T_ch == <<"c","h">>
T_path == <<"$","d","i","r","/","$","s","u","b","/","c","4">>
T_path_done == <<"s","m","/","c","h","/","c","4">>
T_amplitude_onccN == <<"a","m","p","l","i","t","u","d","e","_","o","n","c","c","N">>
T_amplitude_curveccN == <<"a","m","p","l","i","t","u","d","e","_","c","u","r","v","e","c","c","N">>
T_a_sfz == <<"a",".","s","f","z">>
T_no_sfz == <<"n","o",".","s","f","z">>
T_bad_sfz == <<"b","a","d",".","s","f","z">>
T_eq3_bwcc25 == <<"e","q","3","_","b","w","c","c","2","5">>
T_eqN_bwccX == <<"e","q","N","_","b","w","c","c","X">>
T_v000 == <<"v","0","0","0">>
T_Volume == <<"V","o","l","u","m","e">>
T_volume == <<"v","o","l","u","m","e">>
T_3 == <<"3">>
T_4 == <<"4">>
T_KICKTUNE == <<"K","I","C","K","T","U","N","E">>
T_40 == <<"4","0">>
T_63 == <<"6","3">>
T_set_cc_ref == <<"s","e","t","_","c","c","$","K","I","C","K","T","U","N","E">>
T_set_cc40 == <<"s","e","t","_","c","c","4","0">>
T_set_ccN == <<"s","e","t","_","c","c","N">>
T_labelcc5 == <<"l","a","b","e","l","c","c","5">>
T_label_ccN == <<"l","a","b","e","l","_","c","c","N">>
T_awesome == <<"a","w","e","s","o","m","e">>
T_var01_mod == <<"v","a","r","0","1","_","m","o","d">>
T_varNN_mod == <<"v","a","r","N","N","_","m","o","d">>
T_mult == <<"m","u","l","t">>
T_add == <<"a","d","d">>
T_var01_eq1gain == <<"v","a","r","0","1","_","e","q","1","g","a","i","n">>
T_5 == <<"5">>
T_hint_ram_based == <<"h","i","n","t","_","r","a","m","_","b","a","s","e","d">>
T_hint_any == <<"h","i","n","t","_","*">>
T_cutoff_mod == <<"c","u","t","o","f","f","_","m","o","d">>
T_any_mod == <<"*","_","m","o","d">>
T_default_path == <<"d","e","f","a","u","l","t","_","p","a","t","h">>
T_sample == <<"s","a","m","p","l","e">>
T_s == <<"s">>
T_k_c == <<"k","/","c">>
T_c == <<"c">>
T_hikey == <<"h","i","k","e","y">>
T_lokey == <<"l","o","k","e","y">>
T_128 == <<"1","2","8">>
T_60 == <<"6","0">>

---------------------------------------------------------------------------
(* The sample-path validator over a small file system                      *)

\* The file system: paths from the root, as sequences of names (texts).  r is the
\* directory of the linted file (config.sample_dir, no default_path set),
\* r/s a directory, r/s/c and r/k regular files.
Directories == { <<>>, << <<"r">> >>, << <<"r">>, <<"s">> >> }

RegularFiles == { << <<"r">>, <<"s">>, <<"c">> >>, << <<"r">>, <<"k">> >> }

Entries == Directories \cup RegularFiles

SampleDir == << <<"r">> >>

\* pathlib: PurePath.parent (the root is its own parent)
Parent(path) == IF path = <<>> THEN <<>> ELSE SubSeq(path, 1, Len(path) - 1)

\* os.listdir(path) as a set
listdir(path) ==
    { e[Len(e)] : e \in { x \in Entries : x # <<>> /\ Parent(x) = path } }

\* str.replace('\\', '/')
ReplaceBackslash(text) ==
    [i \in 1..Len(text) |-> IF text[i] = "\\" THEN "/" ELSE text[i]]

\* The end of the run of non-separator characters that starts at i.
RECURSIVE PartEnd(_, _)
PartEnd(text, i) ==
    IF i < Len(text) /\ text[i + 1] # "/" THEN PartEnd(text, i + 1) ELSE i

\* PurePath.parts of a relative path: the names between separators, the
\* empty ones and '.' dropped.
RECURSIVE PartsFrom(_, _)
PartsFrom(text, i) ==
    IF i > Len(text) THEN <<>>
    ELSE IF text[i] = "/" THEN PartsFrom(text, i + 1)
    ELSE LET j == PartEnd(text, i)
             part == SubSeq(text, i, j)
         IN  IF part = <<".">> THEN PartsFrom(text, j + 1)
             ELSE <<part>> \o PartsFrom(text, j + 1)

PathParts(value) == PartsFrom(ReplaceBackslash(value), 1)

\* The entry of directory dir the file system finds for name: the one
\* spelled so, or on a case-folding file system the one that differs from
\* it in case only.
Lookup(dir, name, folding) ==
    { e \in listdir(dir) : e = name \/ (folding /\ ToLower(e) = ToLower(name)) }

\* Path.resolve(strict=True) of parts[i..] from the existing path at:
\* '..' goes to the parent, a name under a regular file is ENOTDIR, a name
\* the directory does not have is ENOENT.
RECURSIVE Resolve(_, _, _, _)
Resolve(at, parts, i, folding) ==
    IF i > Len(parts) THEN [st |-> "ok", at |-> at]
    ELSE IF parts[i] = <<".",".">> THEN Resolve(Parent(at), parts, i + 1, folding)
    ELSE IF at \in RegularFiles THEN [st |-> "NotADirectoryError", at |-> at]
    ELSE IF Lookup(at, parts[i], folding) = {} THEN [st |-> "FileNotFoundError", at |-> at]
    ELSE Resolve(Append(at, CHOOSE e \in Lookup(at, parts[i], folding) : TRUE),
                 parts, i + 1, folding)

\* The loop over reversed(sampath.parts), at parts[i] with resolved.
RECURSIVE CaseWalk(_, _, _)
CaseWalk(resolved, parts, i) ==
    IF i = 0 THEN "accepted"
    ELSE IF parts[i] = <<".",".">> THEN "accepted"
    ELSE IF parts[i] \notin listdir(Parent(resolved)) THEN "case does not match"
    ELSE CaseWalk(Parent(resolved), parts, i - 1)

\* SFZValidatorConfig.sample_dir, as the names below the base directory:
\* rel_path / default_path when a default_path has been recorded.
sample_dir(config) ==
    IF config.default_path = NoValue THEN <<>> ELSE PartsFrom(config.default_path.s, 1)

\* SampleValidator.validate: "accepted" is the return of None, the two
\* messages are the returned strings, "NotADirectoryError" is the exception
\* that resolve raises and validate does not catch.
SampleValidate(value, config, folding) ==
    IF value[1] = "*" THEN "accepted"
    ELSE IF ~config.rel_path THEN "accepted"
    ELSE LET parts == PathParts(value)
             resolved == Resolve(SampleDir, sample_dir(config) \o parts, 1, folding)
         IN  IF resolved.st = "FileNotFoundError" THEN "file not found"
             ELSE IF resolved.st = "NotADirectoryError" THEN "NotADirectoryError"
             ELSE CaseWalk(resolved.at, parts, Len(parts))

---------------------------------------------------------------------------
(* The rule table and the validators                                        *)

AnyV == [k |-> "Any", lo |-> 0, hi |-> 0]
RangeV(lo, hi) == [k |-> "Range", lo |-> lo, hi |-> hi]
MinV(lo) == [k |-> "Min", lo |-> lo, hi |-> 0]
TuneV == [k |-> "Tune", lo |-> 0, hi |-> 0]
KeyV(lo, hi) == [k |-> "Key", lo |-> lo, hi |-> hi]
SampleV == [k |-> "Sample", lo |-> 0, hi |-> 0]
ChoiceV(of) == [k |-> "Choice", lo |-> of, hi |-> 0]

\* The rules of the opcodes the model's inputs name: the entries of the
\* opcodes table, with the overrides of spec.py applied.
opcodes ==
    { [name |-> T_tune, ver |-> "v1", type |-> "int", validator |-> TuneV],
      [name |-> T_note_offset, ver |-> "v2", type |-> "int", validator |-> AnyV],
      [name |-> T_hivel, ver |-> "v1", type |-> "int", validator |-> RangeV(0, 127)],
      [name |-> T_curve_index, ver |-> "v2", type |-> "int", validator |-> MinV(0)],
      [name |-> T_region_label, ver |-> "aria", type |-> "", validator |-> AnyV],
      [name |-> T_amplitude_onccN, ver |-> "aria", type |-> "int",
       validator |-> RangeV(0, 100)],
      [name |-> T_amplitude_curveccN, ver |-> "aria", type |-> "", validator |-> AnyV],
      [name |-> T_volume, ver |-> "v1", type |-> "Real", validator |-> RangeV(-144, 6)],
      [name |-> T_set_ccN, ver |-> "v2", type |-> "int", validator |-> RangeV(0, 127)],
      [name |-> T_label_ccN, ver |-> "aria", type |-> "", validator |-> AnyV],
      [name |-> T_sample, ver |-> "v1", type |-> "str", validator |-> SampleV],
      [name |-> T_default_path, ver |-> "v2", type |-> "str", validator |-> AnyV],
      [name |-> T_hint_any, ver |-> "aria", type |-> "", validator |-> AnyV],
      [name |-> T_any_mod, ver |-> "aria", type |-> "", validator |-> AnyV],
      [name |-> T_varNN_mod, ver |-> "aria", type |-> "str", validator |-> ChoiceV(1)],
      [name |-> T_lokey, ver |-> "v1", type |-> "int", validator |-> KeyV(-1, 127)],
      [name |-> T_hikey, ver |-> "v1", type |-> "int", validator |-> KeyV(-1, 127)] }

InTable(name) == \E r \in opcodes : r.name = name

RuleOf(name) == CHOOSE r \in opcodes : r.name = name

\* A diagnostic's message: its kind and what it is about.
Msg(id, a, b, t) == [id |-> id, a |-> a, b |-> b, t |-> t]

NoMsg == Msg("", 0, 0, <<>>)

\* validators.Range.validate
RangeValidate(lo, hi, v) ==
    IF ~IsNumber(v) THEN Msg("cannot compare", lo, hi, v.s)
    ELSE IF NumLess(v, lo) \/ NumGreater(v, hi) THEN Msg("not in range", lo, hi, v.s)
    ELSE NoMsg

\* validators.Min.validate (reached with numbers only: the rules with a
\* Min validator have a numeric type)
MinValidate(lo, v) ==
    IF NumLess(v, lo) THEN Msg("less than minimum", lo, 0, v.s) ELSE NoMsg

\* A mutant of TuneValidate: the narrow bound whenever a filter is set.
TuneValidateNarrow(v, spec_versions) ==
    IF spec_versions = {}
    THEN RangeValidate(-2400, 2400, v)
    ELSE RangeValidate(-100, 100, v)

\* spec.TuneValidator.validate
TuneValidate(v, spec_versions) ==
    IF spec_versions = {} \/ "aria" \in spec_versions
    THEN RangeValidate(-2400, 2400, v)
    ELSE RangeValidate(-100, 100, v)

\* spec.KeyValidator.validate: it overrides Range.validate and does not
\* call it; config.spec_versions == ['v1'] holds for the list only, a set
\* is never equal to a list.
KeyValidate(lo, hi, v, c) ==
    IF v.t = "int" /\ v.n = -1 /\ c.versions_list /\ c.spec_versions = {"v1"}
    THEN Msg("-1 is only valid from V2 onward", 0, 0, v.s)
    ELSE NoMsg

\* The sets of validators.Choice, by the number a rule's ChoiceV has.
choices(of) == IF of = 1 THEN {T_mult, T_add} ELSE {}

\* validators.Choice.validate
ChoiceValidate(of, v) ==
    IF v.s \notin choices(of) THEN Msg("not one of", of, 0, v.s) ELSE NoMsg

\* validation['validator'].validate(token, config)
Validate(validator, v, c) ==
    CASE validator.k = "Range" -> RangeValidate(validator.lo, validator.hi, v)
      [] validator.k = "Sample" ->
           LET outcome == SampleValidate(v.s, c, fold)
           IN  IF outcome = "accepted" THEN NoMsg ELSE Msg(outcome, 0, 0, v.s)
      [] validator.k = "Key" -> KeyValidate(validator.lo, validator.hi, v, c)
      [] validator.k = "Choice" -> ChoiceValidate(validator.lo, v)
      [] validator.k = "Min" -> MinValidate(validator.lo, v)
      [] validator.k = "Tune" -> TuneValidate(v, c.spec_versions)
      [] OTHER -> NoMsg

\* The version filter: a filter is set and the rule's version is not in it.
VersionExcluded(ver, c) == c.spec_versions # {} /\ ver \notin c.spec_versions

\* What validate_opcode_expr raises: nothing (sev ""), a ValidationError
\* ("ERR") or a ValidationWarning ("WARN"), about the opcode-name token or
\* about the value token.
Raised(sev, msg, on) == [sev |-> sev, msg |-> msg, on |-> on]

Passed == Raised("", NoMsg, "")

\* A mutant of ValidateOpcodeExpr: the version is checked before the type.
ValidateOpcodeExprVersionFirst(raw, v, c) ==
    LET direct == InTable(raw)
        n == IF direct THEN NoResult ELSE Sub(raw)
        opcode == IF direct THEN raw ELSE n.template
    IN  IF ~direct /\ n.st = "error"
        THEN Raised("ERR", Msg("unexpected number", 0, 0, n.arg), "opcode")
        ELSE IF ~direct /\ n.st = "badcc"
        THEN Raised("WARN", Msg("not a valid control code", IntOfDigits(n.arg), 0, n.arg),
                    "opcode")
        ELSE IF ~InTable(opcode)
        THEN Raised("WARN", Msg("unknown opcode", 0, 0, opcode), "opcode")
        ELSE LET validation == RuleOf(opcode)
                 err_msg == Validate(validation.validator, v, c)
             IN  IF VersionExcluded(validation.ver, c)
                 THEN Raised("ERR", Msg("opcode is only in sfz spec", 0, 0, opcode), "opcode")
                 ELSE IF validation.type # "" /\ ~IsInstance(v, validation.type)
                 THEN Raised("ERR", Msg("expected type", 0, 0, opcode), "value")
                 ELSE IF err_msg # NoMsg
                 THEN Raised("WARN", err_msg, "value")
                 ELSE Passed

\* A mutant of ValidateOpcodeExpr: an unknown opcode passes silently.
ValidateOpcodeExprLax(raw, v, c) ==
    LET direct == InTable(raw)
        n == IF direct THEN NoResult ELSE Sub(raw)
        opcode == IF direct THEN raw ELSE n.template
    IN  IF ~direct /\ n.st = "error"
        THEN Raised("ERR", Msg("unexpected number", 0, 0, n.arg), "opcode")
        ELSE IF ~direct /\ n.st = "badcc"
        THEN Raised("WARN", Msg("not a valid control code", IntOfDigits(n.arg), 0, n.arg),
                    "opcode")
        ELSE IF ~InTable(opcode)
        THEN Passed
        ELSE LET validation == RuleOf(opcode)
                 err_msg == Validate(validation.validator, v, c)
             IN  IF validation.type # "" /\ ~IsInstance(v, validation.type)
                 THEN Raised("ERR", Msg("expected type", 0, 0, opcode), "value")
                 ELSE IF VersionExcluded(validation.ver, c)
                 THEN Raised("ERR", Msg("opcode is only in sfz spec", 0, 0, opcode), "opcode")
                 ELSE IF err_msg # NoMsg
                 THEN Raised("WARN", err_msg, "value")
                 ELSE Passed

\* opcodes.validate_opcode_expr(raw_opcode, token, config)
ValidateOpcodeExpr(raw, v, c) ==
    LET direct == InTable(raw)
        n == IF direct THEN NoResult ELSE Sub(raw)
        opcode == IF direct THEN raw ELSE n.template
    IN  IF ~direct /\ n.st = "error"
        THEN Raised("ERR", Msg("unexpected number", 0, 0, n.arg), "opcode")
        ELSE IF ~direct /\ n.st = "badcc"
        THEN Raised("WARN", Msg("not a valid control code", IntOfDigits(n.arg), 0, n.arg),
                    "opcode")
        ELSE IF ~InTable(opcode)
        THEN Raised("WARN", Msg("unknown opcode", 0, 0, opcode), "opcode")
        ELSE LET validation == RuleOf(opcode)
                 err_msg == Validate(validation.validator, v, c)
             IN  IF validation.type # "" /\ ~IsInstance(v, validation.type)
                 THEN Raised("ERR", Msg("expected type", 0, 0, opcode), "value")
                 ELSE IF VersionExcluded(validation.ver, c)
                 THEN Raised("ERR", Msg("opcode is only in sfz spec", 0, 0, opcode), "opcode")
                 ELSE IF err_msg # NoMsg
                 THEN Raised("WARN", err_msg, "value")
                 ELSE Passed

---------------------------------------------------------------------------
(* Headers, the document and the configuration                              *)

T_main == <<"m","a","i","n",".","s","f","z">>
T_curvecc == <<"c","u","r","v","e","c","c">>

HeaderTags == {"region", "group", "control", "global", "curve", "effect", "master", "midi"}

\* headers.header_meta
header_meta(tag) ==
    CASE tag = "region" -> [ver |-> "v1", single |-> FALSE]
      [] tag = "group" -> [ver |-> "v1", single |-> FALSE]
      [] tag = "control" -> [ver |-> "v2", single |-> TRUE]
      [] tag = "global" -> [ver |-> "v2", single |-> TRUE]
      [] tag = "curve" -> [ver |-> "v2", single |-> FALSE]
      [] tag = "effect" -> [ver |-> "v2", single |-> TRUE]
      [] tag = "master" -> [ver |-> "aria", single |-> FALSE]
      [] tag = "midi" -> [ver |-> "aria", single |-> TRUE]

\* Header (a dict with a name): ops holds the items in insertion order.
NewHeader(tag) == [name |-> tag, ops |-> <<>>]

\* opcode in header
HeaderHas(h, key) == \E i \in 1..Len(h.ops) : h.ops[i].k = key

\* header[opcode]
HeaderGet(h, key) == h.ops[CHOOSE i \in 1..Len(h.ops) : h.ops[i].k = key].v

\* A mutant of HeaderSet: an overwritten key moves to the end.
HeaderSetMovesToEnd(h, key, v) ==
    LET NotKey(op) == op.k # key
    IN  [h EXCEPT !.ops = Append(SelectSeq(h.ops, NotKey), [k |-> key, v |-> v])]

\* header[opcode] = token
HeaderSet(h, key, v) ==
    IF HeaderHas(h, key)
    THEN [h EXCEPT !.ops = [i \in 1..Len(h.ops) |->
                              IF h.ops[i].k = key THEN [k |-> key, v |-> v] ELSE h.ops[i]]]
    ELSE [h EXCEPT !.ops = Append(h.ops, [k |-> key, v |-> v])]

\* key in dict for values: numbers compare by value, strings by text
KeyEq(a, b) ==
    IF IsNumber(a) /\ IsNumber(b) THEN a.n * Pow10(b.d) = b.n * Pow10(a.d)
    ELSE a.t = b.t /\ a.s = b.s

\* value in SFZ.curves
InCurves(hs, v) ==
    \E i \in 1..Len(hs) :
        /\ hs[i].name = "curve"
        /\ HeaderHas(hs[i], T_curve_index)
        /\ KeyEq(HeaderGet(hs[i], T_curve_index), v)

\* A mutant of HeaderListRejects: no header is a singleton.
HeaderListRejectsNever(cnt, tag) == FALSE

\* HeaderList._inc_cnt raises AttributeError
HeaderListRejects(cnt, tag) == cnt[tag] > 0 /\ header_meta(tag).single

\* SFZValidatorConfig
Config(validate, check_includes, rel_path, file_name, spec_versions, warn) ==
    [validate |-> validate, validate_curvecc |-> TRUE, check_includes |-> check_includes,
     file_name |-> file_name, rel_path |-> rel_path, spec_versions |-> spec_versions,
     default_path |-> NoValue, warn_undefined_var |-> warn, versions_list |-> FALSE]

\* A mutant of IncludeConfig: the included file keeps the file name.
IncludeConfigKeepsName(c, path) ==
    [validate |-> c.check_includes, validate_curvecc |-> FALSE,
     check_includes |-> c.check_includes, file_name |-> c.file_name, rel_path |-> c.rel_path,
     spec_versions |-> c.spec_versions, default_path |-> NoValue,
     warn_undefined_var |-> c.warn_undefined_var, versions_list |-> c.versions_list]

\* A mutant of IncludeConfig: the included file keeps validate_curvecc.
IncludeConfigKeepsCurvecc(c, path) ==
    [validate |-> c.check_includes, validate_curvecc |-> c.validate_curvecc,
     check_includes |-> c.check_includes, file_name |-> path, rel_path |-> c.rel_path,
     spec_versions |-> c.spec_versions, default_path |-> NoValue,
     warn_undefined_var |-> c.warn_undefined_var, versions_list |-> c.versions_list]

\* The config of an included file: SFZValidatorConfig(**ChainMap({...}, vars(config)))
IncludeConfig(c, path) ==
    [validate |-> c.check_includes, validate_curvecc |-> FALSE,
     check_includes |-> c.check_includes, file_name |-> path, rel_path |-> c.rel_path,
     spec_versions |-> c.spec_versions, default_path |-> NoValue,
     warn_undefined_var |-> c.warn_undefined_var, versions_list |-> c.versions_list]

\* A token as a diagnostic carries it: which token of which callback, and its text.
Tok(role, at, s) == [role |-> role, at |-> at, s |-> s]

\* A mutant of Emit: the callback is gated on check_includes, not on validate.
EmitGatedOnIncludes(c, sev, msg, tok) ==
    IF c.check_includes
    THEN << [sev |-> sev, msg |-> msg, tok |-> tok,
             file |-> IF c.file_name = <<>> THEN <<"I","N","P","U","T">> ELSE c.file_name] >>
    ELSE <<>>

\* SFZValidator._err / _warn: the calls of err_cb they make
Emit(c, sev, msg, tok) ==
    IF c.validate
    THEN << [sev |-> sev, msg |-> msg, tok |-> tok,
             file |-> IF c.file_name = <<>> THEN <<"I","N","P","U","T">> ELSE c.file_name] >>
    ELSE <<>>

---------------------------------------------------------------------------
(* Macro substitution                                                       *)

WordChar == Lower \cup Upper \cup Digit \cup {"_"}

RECURSIVE WordRunEnd(_, _)
WordRunEnd(s, i) ==
    IF i < Len(s) /\ s[i + 1] \in WordChar THEN WordRunEnd(s, i + 1) ELSE i

HasDollar(text) == \E i \in 1..Len(text) : text[i] = "$"

\* sub in text
Contains(text, sub) ==
    \E i \in 1..(Len(text) - Len(sub) + 1) : SubSeq(text, i, i + Len(sub) - 1) = sub

\* A mutant of VarReplaceScan: only the first $name of a token is replaced.
RECURSIVE VarReplaceFirstOnly(_, _, _, _, _)
VarReplaceFirstOnly(s, i, defs, out, missing) ==
    IF i > Len(s) THEN [text |-> out, missing |-> missing]
    ELSE IF s[i] = "$" /\ i < Len(s) /\ s[i + 1] \in WordChar
    THEN LET j == WordRunEnd(s, i + 1)
             value == SubSeq(s, i + 1, j)
         IN  IF value \in DOMAIN defs
             THEN [text |-> (out \o defs[value].s) \o SubSeq(s, j + 1, Len(s)),
                   missing |-> missing]
             ELSE VarReplaceFirstOnly(s, j + 1, defs, out \o SubSeq(s, i, j),
                                      Append(missing, value))
    ELSE VarReplaceFirstOnly(s, i + 1, defs, Append(out, s[i]), missing)

\* re.sub(r'\$\w+', onmatch, token) scanning from i: text is the result,
\* missing the names onmatch did not find in defines, in order.
RECURSIVE VarReplaceScan(_, _, _, _, _)
VarReplaceScan(s, i, defs, out, missing) ==
    IF i > Len(s) THEN [text |-> out, missing |-> missing]
    ELSE IF s[i] = "$" /\ i < Len(s) /\ s[i + 1] \in WordChar
    THEN LET j == WordRunEnd(s, i + 1)
             value == SubSeq(s, i + 1, j)
         IN  IF value \in DOMAIN defs
             THEN VarReplaceScan(s, j + 1, defs, out \o defs[value].s, missing)
             ELSE VarReplaceScan(s, j + 1, defs, out \o SubSeq(s, i, j),
                                 Append(missing, value))
    ELSE VarReplaceScan(s, i + 1, defs, Append(out, s[i]), missing)

\* SFZValidator._varreplace
VarReplace(text, defs) == VarReplaceScan(text, 1, defs, <<>>, <<>>)

\* The undefined-variable diagnostics _varreplace makes for a token.
UndefinedDiags(c, missing, tok) ==
    IF c.warn_undefined_var /\ c.validate
    THEN [i \in 1..Len(missing) |->
            Emit(c, "ERR", Msg("undefined variable", 0, 0, missing[i]), tok)[1]]
    ELSE <<>>

---------------------------------------------------------------------------
(* Deferred curve validation                                                *)

\* A mutant of CurveCCValidate: the built-in curves are looked up too.
CurveCCValidateNoBuiltin(v, hs) ==
    IF NumLess(v, 0) THEN Msg("negative curve_index", 0, 0, v.s)
    ELSE IF ~InCurves(hs, v) THEN Msg("no corresponding curve_index found", 0, 0, v.s)
    ELSE NoMsg

\* spec.CurveCCValidator.validate
CurveCCValidate(v, hs) ==
    IF NumLess(v, 0) THEN Msg("negative curve_index", 0, 0, v.s)
    ELSE IF NumLess(v, 7) THEN NoMsg
    ELSE IF ~InCurves(hs, v) THEN Msg("no corresponding curve_index found", 0, 0, v.s)
    ELSE NoMsg

\* opcodes.validate_curvecc(opcode, token, config): the opcode is checked
\* against the table as any other, then the value against the curves.
ValidateCurvecc(raw, v, c, hs) ==
    LET r == ValidateOpcodeExpr(raw, v, c)
        m == CurveCCValidate(v, hs)
    IN  IF r # Passed THEN r
        ELSE IF m # NoMsg THEN Raised("WARN", m, "value")
        ELSE Passed

\* except ValidationError / ValidationWarning: self._err / self._warn
RaisedDiags(c, r, at, raw, v) ==
    IF r = Passed THEN <<>>
    ELSE Emit(c, r.sev, r.msg,
              IF r.on = "opcode" THEN Tok("opcode", at, raw) ELSE Tok("value", at, v.s))

\* SFZValidator._validate_curvecc: the diagnostics of the queue from entry i on
RECURSIVE DeferredDiags(_, _, _, _)
DeferredDiags(queue, i, c, hs) ==
    IF i > Len(queue) THEN <<>>
    ELSE RaisedDiags(c, ValidateCurvecc(queue[i].opcode, queue[i].v, c, hs),
                     queue[i].at, queue[i].opcode, queue[i].v)
         \o DeferredDiags(queue, i + 1, c, hs)

DeferredLog(queue) == [i \in 1..Len(queue) |-> [at |-> queue[i].at, when |-> "deferred"]]

---------------------------------------------------------------------------
(* The inputs: the nodes of the syntax tree, in document order              *)

H(tag, text) == [k |-> "header", tag |-> tag, a |-> text, b |-> <<>>]
D(name, raw) == [k |-> "define", tag |-> "", a |-> name, b |-> raw]
I(path) == [k |-> "include", tag |-> "", a |-> path, b |-> <<>>]
O(name, raw) == [k |-> "opcode", tag |-> "", a |-> name, b |-> raw]
EndOfInclude == [k |-> "endinc", tag |-> "", a |-> <<>>, b |-> <<>>]
EndOfFile == [k |-> "start", tag |-> "", a |-> <<>>, b |-> <<>>]

T_region == <<"r","e","g","i","o","n">>
T_group == <<"g","r","o","u","p">>
T_global == <<"g","l","o","b","a","l">>
T_curve == <<"c","u","r","v","e">>
T_refs == <<"$","c","o","o","l","_","k","e","y","/","$","k">>
T_refs_done == <<"4","2","/","4","2">>

\* the number of nodes of a generated document, per input language
MaxNodesEngine == 3
MaxNodesMacro == 4
MaxNodesCurve == 4
MaxNodesIdem == 3
MaxNodesBuilder == 3
MaxNodesRules == 3
MaxNodesSample == 4
MaxNodesMapping == 4
MaxNodesLint == 3

\* the number of validate_s calls on one config object
MaxRuns == 2

Nodes(v) ==
    CASE v = "engine" ->
           { H("region", T_region), H("group", T_group), D(T_k, T_42), I(T_a_sfz),
             O(T_foo, T_bar), O(T_foo, T_ref_k), O(T_note_offset, T_12),
             O(T_note_offset, T_bar), O(T_tune, T_m400),
             O(T_amplitude_oncc140, T_75), O(T_amplitude_oncc420, T_75) }
      [] v = "macro" ->
           { H("global", T_global), D(T_cool_key, T_42), D(T_k, T_q42), I(T_a_sfz),
             O(T_hivel, T_ref_cool_key), O(T_hivel, T_ref_k),
             O(T_region_label, T_refs) }
      [] v = "curve" ->
           { H("region", T_region), H("curve", T_curve), D(T_k, T_42), I(T_a_sfz),
             O(T_amplitude_curvecc110, T_9), O(T_amplitude_curvecc110, T_1),
             O(T_amplitude_curvecc110, T_m1), O(T_curve_index, T_9) }
      [] v = "idem" ->
           { H("global", T_global), H("region", T_region), D(T_k, T_42), I(T_a_sfz),
             O(T_hivel, T_ref_k), O(T_foo, T_bar) }
      [] v = "builder" ->
           { H("region", T_region), H("global", T_global), D(T_KICKTUNE, T_40),
             I(T_a_sfz), I(T_no_sfz), I(T_bad_sfz),
             O(T_Volume, T_3), O(T_volume, T_4), O(T_set_cc_ref, T_63),
             O(T_labelcc5, T_awesome) }
      [] v = "mapping" ->
           { H("region", T_region), D(T_k, T_42), I(T_a_sfz),
             O(T_Volume, T_3), O(T_volume, T_4), O(T_hivel, T_ref_k) }
      [] v = "sample" ->
           { H("region", T_region), D(T_k, T_42), I(T_a_sfz),
             O(T_default_path, T_s), O(T_sample, T_c) }
      [] v = "lint" ->
           { H("global", T_global), D(T_k, T_42), I(T_a_sfz), O(T_hivel, T_ref_k),
             O(T_default_path, T_s), O(T_sample, T_k_c) }
      [] v = "rules" ->
           { H("region", T_region), D(T_k, T_42), I(T_a_sfz),
             O(T_var01_mod, T_mult), O(T_var01_eq1gain, T_5), O(T_hint_ram_based, T_1),
             O(T_cutoff_mod, T_mult), O(T_hikey, T_m1), O(T_lokey, T_m1),
             O(T_hikey, T_128), O(T_hikey, T_60) }
      [] OTHER -> {}

Limit(v) ==
    CASE v = "engine" -> MaxNodesEngine
      [] v = "macro" -> MaxNodesMacro
      [] v = "curve" -> MaxNodesCurve
      [] v = "idem" -> MaxNodesIdem
      [] v = "builder" -> MaxNodesBuilder
      [] v = "rules" -> MaxNodesRules
      [] v = "lint" -> MaxNodesLint
      [] v = "sample" -> MaxNodesSample
      [] v = "mapping" -> MaxNodesMapping
      [] OTHER -> 0

NodeCount(evs) == Cardinality({i \in 1..Len(evs) : evs[i].k \notin {"endinc", "start"}})

\* The file system as _load_include sees it: a.sfz is a file that parses,
\* bad.sfz a file the grammar rejects, any other path is no file.
FileStatus(path) ==
    IF path = T_a_sfz THEN "ok" ELSE IF path = T_bad_sfz THEN "bad" ELSE "missing"

\* The callbacks the walk may make next: in the first run any node of the
\* input language (a file is included once, a document has at most
\* Limit(vocab) nodes), in a later run the callback the first run made.
NextEvents(kind) ==
    IF pc # "walk" THEN {}
    ELSE IF run = 1
    THEN IF kind \in {"endinc", "start"}
         THEN { [k |-> kind, tag |-> "", a |-> <<>>, b |-> <<>>] }
         ELSE { e \in Nodes(vocab) :
                  /\ e.k = kind
                  /\ NodeCount(input) < Limit(vocab)
                  /\ (kind = "include" => \A i \in 1..Len(input) : input[i] # e) }
    ELSE IF cursor < Len(input) /\ input[cursor + 1].k = kind
    THEN { input[cursor + 1] }
    ELSE {}

Step(e) ==
    /\ input' = IF run = 1 THEN Append(input, e) ELSE input
    /\ cursor' = cursor + 1
    /\ mark' = Len(diags)
    /\ UNCHANGED <<run, first, vocab, normVars>>

---------------------------------------------------------------------------
(* SFZValidator: the callbacks of the walk                                  *)

\* SFZValidator.header
Header ==
    \E e \in NextEvents("header") :
        LET tok == Tok("header", cursor + 1, e.a)
            warned == IF cfg.validate /\ cfg.spec_versions # {}
                         /\ header_meta(e.tag).ver \notin cfg.spec_versions
                      THEN Emit(cfg, "WARN", Msg("header spec not in", 0, 0, e.a), tok)
                      ELSE <<>>
        IN  /\ Step(e)
            /\ IF HeaderListRejects(counts, e.tag)
               THEN /\ diags' = (diags \o warned)
                                \o Emit(cfg, "ERR", Msg("only one header allowed", 0, 0, e.a), tok)
                    /\ UNCHANGED <<headers, counts, current_header>>
               ELSE /\ diags' = diags \o warned
                    /\ headers' = Append(headers, NewHeader(e.tag))
                    /\ counts' = [counts EXCEPT ![e.tag] = @ + 1]
                    /\ current_header' = Len(headers) + 1
            /\ UNCHANGED <<pc, cfg, stack, defines, includes, curveccs, vlog, curveRuns>>

\* SFZValidator.define_macro
DefineMacro ==
    \E e \in NextEvents("define") :
        /\ Step(e)
        /\ defines' = [x \in DOMAIN defines \cup {e.a} |->
                         IF x = e.a THEN SanitizeToken(e.b) ELSE defines[x]]
        /\ UNCHANGED <<pc, cfg, stack, headers, counts, includes, current_header,
                       curveccs, diags, vlog, curveRuns>>

\* A mutant of IncludeMacro: a failed load does not restore the config.
IncludeMacroKeepsConfig ==
    \E e \in NextEvents("include") :
        LET sanitized == SanitizeToken(e.a)
            tok == Tok("path", cursor + 1, sanitized.s)
            status == FileStatus(sanitized.s)
        IN  /\ Step(e)
            /\ IF ~cfg.rel_path
               THEN /\ includes' = Append(includes, sanitized.s)
                    /\ UNCHANGED <<cfg, stack, diags>>
               ELSE IF status = "missing"
               THEN /\ diags' = diags \o Emit(cfg, "ERR",
                                   Msg("could not load include, file not found", 0, 0, <<>>), tok)
                    /\ includes' = Append(includes, sanitized.s)
                    /\ UNCHANGED <<cfg, stack>>
               ELSE IF status = "bad"
               THEN /\ diags' = diags \o Emit(IncludeConfig(cfg, sanitized.s), "ERR",
                                   Msg("error loading include", 0, 0, <<>>), tok)
                    /\ includes' = Append(includes, sanitized.s)
                    /\ cfg' = IncludeConfig(cfg, sanitized.s)
                    /\ UNCHANGED stack
               ELSE /\ stack' = Append(stack, [conf |-> cfg, path |-> sanitized.s])
                    /\ cfg' = IncludeConfig(cfg, sanitized.s)
                    /\ UNCHANGED <<includes, diags>>
            /\ UNCHANGED <<pc, headers, counts, defines, current_header, curveccs,
                           vlog, curveRuns>>

\* SFZValidator.include_macro and _load_include up to the walk of the
\* included tree
IncludeMacro ==
    \E e \in NextEvents("include") :
        LET sanitized == SanitizeToken(e.a)
            tok == Tok("path", cursor + 1, sanitized.s)
            status == FileStatus(sanitized.s)
        IN  /\ Step(e)
            /\ IF ~cfg.rel_path
               THEN /\ includes' = Append(includes, sanitized.s)
                    /\ UNCHANGED <<cfg, stack, diags>>
               ELSE IF status = "missing"
               THEN /\ diags' = diags \o Emit(cfg, "ERR",
                                   Msg("could not load include, file not found", 0, 0, <<>>), tok)
                    /\ includes' = Append(includes, sanitized.s)
                    /\ UNCHANGED <<cfg, stack>>
               ELSE IF status = "bad"
               THEN /\ diags' = diags \o Emit(cfg, "ERR",
                                   Msg("error loading include", 0, 0, <<>>), tok)
                    /\ includes' = Append(includes, sanitized.s)
                    /\ UNCHANGED <<cfg, stack>>
               ELSE /\ stack' = Append(stack, [conf |-> cfg, path |-> sanitized.s])
                    /\ cfg' = IncludeConfig(cfg, sanitized.s)
                    /\ UNCHANGED <<includes, diags>>
            /\ UNCHANGED <<pc, headers, counts, defines, current_header, curveccs,
                           vlog, curveRuns>>

\* The validator left validate_opcode_expr with an exception that is
\* neither ValidationError nor ValidationWarning.
Escapes(r) == r # Passed /\ r.msg.id = "NotADirectoryError"

\* The callback that included path: a file is included once.
IncludeAt(evs, path) ==
    CHOOSE i \in 1..Len(evs) : evs[i].k = "include" /\ SanitizeToken(evs[i].a).s = path

\* SFZValidator.opcode_exp and _validate_opcode. An exception that leaves
\* the validator ends the transform: in an included file _load_include
\* catches it (except Exception), at the top level it leaves validate.
OpcodeExp ==
    \E e \in NextEvents("opcode") :
        LET at == cursor + 1
            nrep == IF HasDollar(e.a) THEN VarReplace(e.a, defines)
                    ELSE [text |-> e.a, missing |-> <<>>]
            nerr == UndefinedDiags(cfg, nrep.missing, Tok("opcode", at, e.a))
            replaced == nrep.text
            hdr == headers[current_header]
            dup == IF HeaderHas(hdr, replaced)
                   THEN Emit(cfg, "WARN", Msg("duplicate opcode", 0, 0, replaced),
                             Tok("opcode", at, replaced))
                   ELSE <<>>
            opcode == ToLower(replaced)
            vrep == IF HasDollar(e.b) THEN VarReplace(e.b, defines)
                    ELSE [text |-> e.b, missing |-> <<>>]
            verr == UndefinedDiags(cfg, vrep.missing, Tok("value", at, e.b))
            token == SanitizeToken(vrep.text)
            early == ((nerr \o dup) \o verr)
            deferred == Contains(opcode, T_curvecc)
            escapes == /\ current_header # 0
                       /\ cfg.validate
                       /\ ~deferred
                       /\ Escapes(ValidateOpcodeExpr(opcode, token, cfg))
            caught == escapes /\ stack # <<>>
        IN  /\ Step(e)
            /\ IF current_header = 0
               THEN /\ diags' = diags \o Emit(cfg, "ERR",
                                   Msg("opcode outside of header", 0, 0, e.a),
                                   Tok("opcode", at, e.a))
                    /\ UNCHANGED <<headers, cfg, curveccs, vlog>>
               ELSE /\ headers' = [headers EXCEPT ![current_header] =
                                     HeaderSet(hdr, opcode, token)]
                    /\ cfg' = IF caught THEN stack[Len(stack)].conf
                              ELSE IF opcode = T_default_path
                              THEN [cfg EXCEPT !.default_path = token] ELSE cfg
                    /\ IF ~cfg.validate
                       THEN /\ diags' = diags \o early
                            /\ UNCHANGED <<curveccs, vlog>>
                       ELSE IF deferred
                       THEN /\ curveccs' = Append(curveccs,
                                             [at |-> at, opcode |-> opcode, v |-> token])
                            /\ diags' = diags \o early
                            /\ UNCHANGED vlog
                       ELSE /\ diags' = (diags \o early)
                                        \o (IF caught
                                            THEN Emit(stack[Len(stack)].conf, "ERR",
                                                      Msg("error loading include", 0, 0, <<>>),
                                                      Tok("path", IncludeAt(input, stack[Len(stack)].path),
                                                          stack[Len(stack)].path))
                                            ELSE IF escapes THEN <<>>
                                            ELSE RaisedDiags(cfg, ValidateOpcodeExpr(opcode, token, cfg),
                                                             at, opcode, token))
                            /\ vlog' = Append(vlog, [at |-> at, when |-> "immediate"])
                            /\ UNCHANGED curveccs
            /\ pc' = IF escapes /\ ~caught THEN "raised" ELSE pc
            /\ stack' = IF caught THEN SubSeq(stack, 1, Len(stack) - 1) ELSE stack
            /\ includes' = IF caught THEN Append(includes, stack[Len(stack)].path) ELSE includes
            /\ UNCHANGED <<counts, defines, current_header, curveRuns>>

\* SFZValidator.start for the tree of an included file, and the return of
\* _load_include and include_macro
EndInclude ==
    \E e \in NextEvents("endinc") :
        /\ stack # <<>>
        /\ Step(e)
        /\ IF cfg.validate_curvecc
           THEN /\ diags' = diags \o DeferredDiags(curveccs, 1, cfg, headers)
                /\ vlog' = vlog \o DeferredLog(curveccs)
                /\ curveRuns' = curveRuns + 1
           ELSE UNCHANGED <<diags, vlog, curveRuns>>
        /\ cfg' = stack[Len(stack)].conf
        /\ includes' = Append(includes, stack[Len(stack)].path)
        /\ stack' = SubSeq(stack, 1, Len(stack) - 1)
        /\ UNCHANGED <<pc, headers, counts, defines, current_header, curveccs>>

\* SFZValidator.start for the tree of the top-level file: validate_s returns
Start ==
    \E e \in NextEvents("start") :
        /\ stack = <<>>
        /\ Step(e)
        /\ IF cfg.validate_curvecc
           THEN /\ diags' = diags \o DeferredDiags(curveccs, 1, cfg, headers)
                /\ vlog' = vlog \o DeferredLog(curveccs)
                /\ curveRuns' = curveRuns + 1
           ELSE UNCHANGED <<diags, vlog, curveRuns>>
        /\ pc' = "done"
        /\ UNCHANGED <<cfg, stack, headers, counts, defines, includes, current_header,
                       curveccs>>

\* validate_s(string, err_cb, config) once more, with the same string and
\* the SFZValidatorConfig object of the run before: SFZValidator.__init__
Rerun ==
    /\ pc = "done"
    /\ run < MaxRuns
    /\ run' = run + 1
    /\ first' = IF run = 1 THEN diags ELSE first
    /\ pc' = "walk"
    /\ current_header' = 0
    /\ curveccs' = <<>>
    /\ diags' = <<>>
    /\ cursor' = 0
    /\ mark' = 0
    /\ vlog' = <<>>
    /\ curveRuns' = 0
    /\ UNCHANGED <<cfg, stack, headers, counts, defines, includes, input, vocab, normVars>>

---------------------------------------------------------------------------
(* The specifications                                                       *)

NormIdle ==
    /\ nm = <<>>
    /\ res = NoResult
    /\ rt = <<>>
    /\ phase = "idle"
    /\ fold = FALSE

\* The document, the walker and the history before the first callback.
WalkStart ==
    /\ stack = <<>>
    /\ headers = <<>>
    /\ counts = [t \in HeaderTags |-> 0]
    /\ defines = <<>>
    /\ includes = <<>>
    /\ current_header = 0
    /\ curveccs = <<>>
    /\ diags = <<>>
    /\ input = <<>>
    /\ cursor = 0
    /\ mark = 0
    /\ run = 1
    /\ first = <<>>
    /\ vlog = <<>>
    /\ curveRuns = 0

\* The state after SFZValidator(err_cb, config) on a new config.
InitWalkWarn(v, filters, checks, warns) ==
    /\ NormIdle
    /\ vocab = v
    /\ pc = "walk"
    /\ \E f \in filters, ci \in checks, w \in warns :
           cfg = Config(TRUE, ci, TRUE, T_main, f, w)
    /\ WalkStart

InitWalk(v, filters, checks) == InitWalkWarn(v, filters, checks, {TRUE})

WalkIdleWith(rel_paths) ==
    /\ vocab = ""
    /\ pc = "idle"
    /\ \E rp \in rel_paths : cfg = Config(TRUE, FALSE, rp, <<>>, {}, TRUE)
    /\ stack = <<>>
    /\ headers = <<>>
    /\ counts = [t \in HeaderTags |-> 0]
    /\ defines = <<>>
    /\ includes = <<>>
    /\ current_header = 0
    /\ curveccs = <<>>
    /\ diags = <<>>
    /\ input = <<>>
    /\ cursor = 0
    /\ mark = 0
    /\ run = 1
    /\ first = <<>>
    /\ vlog = <<>>
    /\ curveRuns = 0

WalkIdle == WalkIdleWith({FALSE})

Filters == { {}, {"v1"}, {"aria"}, {"v1", "aria"} }

Init == InitWalk("engine", Filters, BOOLEAN)

Next == Header \/ DefineMacro \/ IncludeMacro \/ OpcodeExp \/ EndInclude \/ Start

Spec == Init /\ [][Next]_vars

InitMacro == InitWalk("macro", {{}}, BOOLEAN)

SpecMacro == InitMacro /\ [][Next]_vars

InitCurve == InitWalk("curve", {{}}, BOOLEAN)

SpecCurve == InitCurve /\ [][Next]_vars

InitIdem == InitWalk("idem", {{}}, BOOLEAN)

NextIdem == Next \/ Rerun

SpecIdem == InitIdem /\ [][NextIdem]_vars

InitBuilder == InitWalk("builder", { {}, {"v1"} }, BOOLEAN)

SpecBuilder == InitBuilder /\ [][Next]_vars

\* validate_s with the filter given as a set (lint.py) or as a list (the
\* tests): the rules vocabulary
InitRules ==
    /\ NormIdle
    /\ vocab = "rules"
    /\ pc = "walk"
    /\ \E f \in { {}, {"v1"} }, l \in BOOLEAN :
           cfg = [Config(TRUE, FALSE, TRUE, T_main, f, TRUE) EXCEPT
                    !.versions_list = (l /\ f # {})]
    /\ WalkStart

SpecRules == InitRules /\ [][Next]_vars

InitMapping == InitWalk("mapping", { {} }, BOOLEAN)

SpecMapping == InitMapping /\ [][Next]_vars

InitSampleWalk == InitWalk("sample", { {} }, BOOLEAN)

SpecSampleWalk == InitSampleWalk /\ [][Next]_vars

InitMacroWarn == InitWalkWarn("macro", { {} }, {FALSE}, BOOLEAN)

SpecMacroWarn == InitMacroWarn /\ [][Next]_vars

---------------------------------------------------------------------------
(* SpecSample: the sample-path validator applied to bounded paths          *)

\* the number of segments of a generated path
MaxParts == 3

PathSegments == { <<"s">>, <<"S">>, <<"c">>, <<"C">>, <<"k">>, <<"x">>, <<".",".">> }

PathSeparators == { <<"/">>, <<"\\">> }

RECURSIVE PathsOf(_)
PathsOf(k) ==
    IF k = 1 THEN PathSegments
    ELSE { (p \o sep) \o seg : p \in PathsOf(k - 1), sep \in PathSeparators,
                               seg \in PathSegments }

\* the sample values: paths of at most k segments, and built-in sounds
SampleInputs(k) ==
    UNION { PathsOf(j) : j \in 1..k } \cup { <<"*">>, <<"*","s">>, <<"*","x","/","c">> }

InitSample ==
    /\ WalkIdleWith(BOOLEAN)
    /\ nm \in SampleInputs(MaxParts)
    /\ res = NoResult
    /\ rt = <<>>
    /\ phase = "sample"
    /\ fold \in BOOLEAN

ValidateSample ==
    /\ phase = "sample"
    /\ res' = [NoResult EXCEPT !.st = SampleValidate(nm, cfg, fold)]
    /\ phase' = "validated"
    /\ UNCHANGED <<nm, rt, fold, walkVars>>

NextSample == ValidateSample

SpecSample == InitSample /\ [][NextSample]_vars

---------------------------------------------------------------------------
(* SpecLint: lint over the files of a directory or of an XML program       *)

\* the number of files of a lint run
MaxFiles == 2

LintPhases == {"lint", "lint_xml", "lint_xml_defines"}

\* The i-th path of the glob, or of the AriaElements of the program.
FileName(i) == <<DigitChar(i)>> \o <<".","s","f","z">>

\* lint_xml: the Define elements of the program, name without its $
ProgramDefines(ph) ==
    IF ph = "lint_xml_defines" THEN [x \in {T_cool_key} |-> StrValue(T_42)] ELSE <<>>

\* lint up to the first validate call: the config of the first file, and
\* in lint_xml the first AriaElement
InitLint ==
    /\ nm = <<>>
    /\ res = NoResult
    /\ rt = <<>>
    /\ phase \in LintPhases
    /\ fold = FALSE
    /\ vocab = "lint"
    /\ pc = "walk"
    /\ \E ci \in BOOLEAN :
           cfg = Config(TRUE, ci \/ phase # "lint", TRUE, FileName(1), {}, TRUE)
    /\ stack = <<>>
    /\ headers = <<>>
    /\ counts = [t \in HeaderTags |-> 0]
    /\ defines = ProgramDefines(phase)
    /\ includes = <<>>
    /\ current_header = 0
    /\ curveccs = <<>>
    /\ diags = <<>>
    /\ input = <<>>
    /\ cursor = 0
    /\ mark = 0
    /\ run = 1
    /\ first = <<>>
    /\ vlog = <<>>
    /\ curveRuns = 0

\* lint_sfz: parse raised UnexpectedCharacters or UnexpectedToken before
\* any callback; err_cb is called once with the first line of the error.
LintSfzExcept ==
    /\ phase \in LintPhases
    /\ pc = "walk"
    /\ cursor = 0
    /\ diags' = Append(diags, [sev |-> "ERR", msg |-> Msg("unexpected input", 0, 0, <<>>),
                               tok |-> Tok("error", 0, <<>>), file |-> cfg.file_name])
    /\ pc' = "done"
    /\ UNCHANGED <<cfg, stack, headers, counts, defines, includes, current_header,
                   curveccs, input, cursor, mark, run, first, vlog, curveRuns, vocab,
                   normVars>>

\* The next round of the loop of lint: a new SFZValidatorConfig, and with
\* it a new SFZ, for the next file.
LintLoop ==
    /\ phase = "lint"
    /\ pc = "done"
    /\ Len(first) + 1 < MaxFiles
    /\ first' = Append(first, diags)
    /\ cfg' = Config(TRUE, cfg.check_includes, TRUE, FileName(Len(first) + 2),
                     cfg.spec_versions, TRUE)
    /\ pc' = "walk"
    /\ stack' = <<>>
    /\ headers' = <<>>
    /\ counts' = [t \in HeaderTags |-> 0]
    /\ defines' = <<>>
    /\ includes' = <<>>
    /\ current_header' = 0
    /\ curveccs' = <<>>
    /\ diags' = <<>>
    /\ input' = <<>>
    /\ cursor' = 0
    /\ mark' = 0
    /\ vlog' = <<>>
    /\ curveRuns' = 0
    /\ UNCHANGED <<run, vocab, normVars>>

\* The next round of the loop of lint_xml: the config object of the round
\* before with file_name, rel_path and check_includes set; config.sfz is
\* replaced by SFZ(defines=defines), on the one dict of the program, only
\* when the program has a Define.
LintXmlLoop ==
    /\ phase \in {"lint_xml", "lint_xml_defines"}
    /\ pc = "done"
    /\ Len(first) + 1 < MaxFiles
    /\ first' = Append(first, diags)
    /\ cfg' = [cfg EXCEPT !.file_name = FileName(Len(first) + 2),
                          !.rel_path = TRUE,
                          !.check_includes = TRUE]
    /\ pc' = "walk"
    /\ IF phase = "lint_xml_defines"
       THEN /\ headers' = <<>>
            /\ counts' = [t \in HeaderTags |-> 0]
            /\ includes' = <<>>
       ELSE UNCHANGED <<headers, counts, includes>>
    /\ current_header' = 0
    /\ curveccs' = <<>>
    /\ diags' = <<>>
    /\ input' = <<>>
    /\ cursor' = 0
    /\ mark' = 0
    /\ vlog' = <<>>
    /\ curveRuns' = 0
    /\ UNCHANGED <<stack, defines, run, vocab, normVars>>

NextLint == Next \/ LintSfzExcept \/ LintLoop \/ LintXmlLoop

SpecLint == InitLint /\ [][NextLint]_vars

---------------------------------------------------------------------------
(* SpecHeaderList: the operations of a HeaderList                           *)

\* the number of headers a generated list holds at most
MaxHeaders == 3

ListTags == {"region", "group", "global"}

\* HeaderList.__len__
RECURSIVE SumCounts(_, _)
SumCounts(cnt, tags) ==
    IF tags = {} THEN 0
    ELSE LET t == CHOOSE x \in tags : TRUE IN cnt[t] + SumCounts(cnt, tags \ {t})

HeaderListLen(cnt) == SumCounts(cnt, HeaderTags)

\* list.insert(pos, item) for 0 <= pos
ListInsert(list, pos, item) ==
    IF pos >= Len(list) THEN Append(list, item)
    ELSE (SubSeq(list, 1, pos) \o <<item>>) \o SubSeq(list, pos + 1, Len(list))

\* The operation returned (st "ok") or raised (st the exception's name).
Outcome(st) == [NoResult EXCEPT !.st = st]

\* HeaderList() of a new SFZ
InitHeaderList ==
    /\ WalkIdle
    /\ nm = <<>>
    /\ res = Outcome("ok")
    /\ rt = <<>>
    /\ phase = "headerlist"
    /\ fold = FALSE

\* HeaderList.insert(pos, item), which append and extend call with
\* pos = len(self)
HeaderListInsert ==
    /\ phase = "headerlist"
    /\ Len(headers) < MaxHeaders
    /\ \E pos \in 0..Len(headers), tag \in ListTags :
           IF HeaderListRejects(counts, tag)
           THEN /\ res' = Outcome("AttributeError")
                /\ UNCHANGED <<headers, counts>>
           ELSE /\ counts' = [counts EXCEPT ![tag] = @ + 1]
                /\ headers' = ListInsert(headers, pos, NewHeader(tag))
                /\ res' = Outcome("ok")
    /\ UNCHANGED <<nm, rt, phase, fold, pc, cfg, stack, defines, includes, current_header,
                   curveccs, diags, input, cursor, mark, run, first, vlog, curveRuns, vocab>>

\* HeaderList.__setitem__(key, header): the header is stored, and when the
\* name changes _inc_cnt is called with the name, a str, whose .name raises
\* AttributeError before any count is touched.
HeaderListSetItem ==
    /\ phase = "headerlist"
    /\ \E key \in 0..Len(headers), tag \in ListTags :
           IF key >= Len(headers)
           THEN /\ res' = Outcome("IndexError")
                /\ UNCHANGED <<headers, counts>>
           ELSE /\ headers' = [headers EXCEPT ![key + 1] = NewHeader(tag)]
                /\ res' = IF headers[key + 1].name # tag
                          THEN Outcome("AttributeError") ELSE Outcome("ok")
                /\ UNCHANGED counts
    /\ UNCHANGED <<nm, rt, phase, fold, pc, cfg, stack, defines, includes, current_header,
                   curveccs, diags, input, cursor, mark, run, first, vlog, curveRuns, vocab>>

\* HeaderList.__delitem__(key): self._headers.__delitem__[key] subscripts a
\* method and raises TypeError before anything is deleted or counted.
HeaderListDelItem ==
    /\ phase = "headerlist"
    /\ \E key \in 0..Len(headers) :
           res' = IF key >= Len(headers) THEN Outcome("IndexError") ELSE Outcome("TypeError")
    /\ UNCHANGED <<headers, counts>>
    /\ UNCHANGED <<nm, rt, phase, fold, pc, cfg, stack, defines, includes, current_header,
                   curveccs, diags, input, cursor, mark, run, first, vlog, curveRuns, vocab>>

NextHeaderList == HeaderListInsert \/ HeaderListSetItem \/ HeaderListDelItem

SpecHeaderList == InitHeaderList /\ [][NextHeaderList]_vars

---------------------------------------------------------------------------
(* SpecNorm: the normalizer applied to bounded opcode names                *)

\* the number of (letters)(digits) segments of a generated name
MaxSegments == 3

NamePrefixes == { <<"e","q">>, <<"_","b","w","c","c">>, <<"v","e","l">> }

NameDigits == { <<"3">>, <<"2","5">>, <<"0","0","0">>, <<"2">>, <<"1","4","0">> }

RECURSIVE NamesOf(_)
NamesOf(k) ==
    IF k = 0 THEN { <<>> }
    ELSE { (n \o p) \o d : n \in NamesOf(k - 1), p \in NamePrefixes, d \in NameDigits }

\* the opcode names of at most k digit runs
NormInputs(k) == UNION { NamesOf(j) : j \in 1..k }

InitNorm ==
    /\ WalkIdle
    /\ nm \in NormInputs(MaxSegments)
    /\ res = NoResult
    /\ rt = <<>>
    /\ phase = "input"
    /\ fold = FALSE

Normalize ==
    /\ phase = "input"
    /\ res' = Sub(nm)
    /\ phase' = "normalized"
    /\ UNCHANGED <<nm, rt, fold, walkVars>>

Resub ==
    /\ phase = "normalized"
    /\ res.st = "ok"
    /\ rt' = Resubstitute(res.template, res.binds)
    /\ phase' = "resub"
    /\ UNCHANGED <<nm, res, fold, walkVars>>

NextNorm == Normalize \/ Resub

SpecNorm == InitNorm /\ [][NextNorm]_vars

---------------------------------------------------------------------------
(* Properties of the normalizer                                             *)

\* No digit run of s of two or more digits starts with 0.
NoLeadingZero(s) ==
    \A i \in 1..Len(s) :
        (s[i] = "0" /\ (i = 1 \/ s[i - 1] \notin Digit))
            => (i = Len(s) \/ s[i + 1] \notin Digit)

IsPlaceholder(c) == SubsIndex(c) > 0

---------------------------------------------------------------------------
(* Properties of the validation of one assignment                           *)

\* The diagnostics of the last callback.
NewDiags == SubSeq(diags, mark + 1, Len(diags))

\* The diagnostics _validate_opcode makes itself, before the rule lookup.
IsEngineDiag(d) == d.msg.id \notin {"duplicate opcode", "undefined variable"}

\* The step is an assignment under a header, in a validating context.
Assigning ==
    /\ cursor' = cursor + 1
    /\ input'[cursor'].k = "opcode"
    /\ current_header # 0
    /\ cfg.validate

\* The assignment of the step is the first of its name in the header and
\* its value has no undefined macro reference.
Fresh ==
    /\ ~HeaderHas(headers[current_header], input'[cursor'].a)
    /\ VarReplace(input'[cursor'].b, defines).missing = <<>>

\* The normalized name is not in the rule table.
UnknownName(raw) == ~InTable(raw) /\ Sub(raw).st = "ok" /\ ~InTable(Sub(raw).template)

\* The value the assignment of node e stores.
StoredValue(e, defs) == SanitizeToken(VarReplace(e.b, defs).text)

\* ds is one warning about an unknown opcode on the opcode-name token.
OneUnknownWarning(ds, at, raw) ==
    /\ Len(ds) = 1
    /\ ds[1].sev = "WARN"
    /\ ds[1].msg.id = "unknown opcode"
    /\ ds[1].tok = Tok("opcode", at, raw)

KnownName(raw) == InTable(raw) \/ (Sub(raw).st = "ok" /\ InTable(Sub(raw).template))

RuleFor(raw) == IF InTable(raw) THEN RuleOf(raw) ELSE RuleOf(Sub(raw).template)

\* The rule's version is excluded by the filter of the context.
Excluded(raw) == KnownName(raw) /\ VersionExcluded(RuleFor(raw).ver, cfg)

\* ds is one error about the version on the opcode-name token.
OneVersionError(ds, at, raw) ==
    /\ Len(ds) = 1
    /\ ds[1].sev = "ERR"
    /\ ds[1].msg.id = "opcode is only in sfz spec"
    /\ ds[1].tok = Tok("opcode", at, raw)

\* C3: an assignment whose rule's version is excluded by the active filter
\* yields exactly one diagnostic, an error on the opcode-name token.
C3_VersionFiltering ==
    [][(Assigning /\ Fresh /\ Excluded(input'[cursor'].a)) =>
          OneVersionError(NewDiags', cursor', input'[cursor'].a)]_vars

\* C3 on the values of the rule's type: there the version error is the one
\* diagnostic.
C3_VersionFilteringTyped ==
    [][(/\ Assigning
        /\ Fresh
        /\ Excluded(input'[cursor'].a)
        /\ IsInstance(StoredValue(input'[cursor'], defines), RuleFor(input'[cursor'].a).type)) =>
          OneVersionError(NewDiags', cursor', input'[cursor'].a)]_vars

\* <group>note_offset=12 under the filter {v1} has been parsed.
C3_Example ==
    /\ pc = "done"
    /\ cfg.spec_versions = {"v1"}
    /\ input = << H("group", T_group), O(T_note_offset, T_12), EndOfFile >>
    /\ OneVersionError(diags, 2, T_note_offset)

\* <region>tune=-400
TuneDoc == << H("region", T_region), O(T_tune, T_m400), EndOfFile >>

\* ds is one diagnostic of severity sev on the value -400 of node 2, saying
\* that it is not in the range -100 to 100.
OneRangeDiag(ds, sev) ==
    /\ Len(ds) = 1
    /\ ds[1].sev = sev
    /\ ds[1].msg.id = "not in range"
    /\ ds[1].msg.a = -100
    /\ ds[1].msg.b = 100
    /\ ds[1].tok = Tok("value", 2, T_m400)

HasControlCodeAbove(raw, ceiling) ==
    \E i \in 3..Len(raw), j \in 3..Len(raw) :
        /\ i <= j
        /\ raw[i - 2] = "c" /\ raw[i - 1] = "c"
        /\ \A x \in i..j : raw[x] \in Digit
        /\ (j = Len(raw) \/ raw[j + 1] \notin Digit)
        /\ IntOfDigits(SubSeq(raw, i, j)) > ceiling

\* ds is one warning '<n> is not a valid control code' on the opcode-name token.
OneControlCodeWarning(ds, at, raw) ==
    /\ Len(ds) = 1
    /\ ds[1].sev = "WARN"
    /\ ds[1].msg.id = "not a valid control code"
    /\ HasControlCodeAbove(raw, ds[1].msg.a - 1)
    /\ ds[1].tok = Tok("opcode", at, raw)

\* C5 as stated: an assignment to a name with a control-code number above
\* 155 yields, under any filter, one warning '<n> is not a valid control
\* code' on the opcode-name token, and no other diagnostic.
C5_CeilingOnly ==
    [][(Assigning /\ HasControlCodeAbove(input'[cursor'].a, 155)) =>
          OneControlCodeWarning(NewDiags', cursor', input'[cursor'].a)]_vars

\* C5 amended: an assignment, under a header of a validated file, to a name
\* that is no curvecc opcode and has its control-code number above 155 among
\* its first three digit runs yields, under any filter, one warning '<n> is
\* not a valid control code' on the opcode-name token and no other
\* diagnostic of the rule lookup; it is the only diagnostic of the
\* assignment when the name is not yet in the header and the value has no
\* undefined macro reference.
C5_Ceiling ==
    [][(/\ Assigning
        /\ HasControlCodeAbove(input'[cursor'].a, 155)
        /\ ~Contains(input'[cursor'].a, T_curvecc)
        /\ Sub(input'[cursor'].a).st # "error") =>
          /\ OneControlCodeWarning(SelectSeq(NewDiags', IsEngineDiag), cursor',
                                   input'[cursor'].a)
          /\ Fresh => Len(NewDiags') = 1]_vars

\* C5 witness: <group>amplitude_oncc420=75 has been parsed under the filter
\* {v1}.
C5_Witness ==
    /\ pc = "done"
    /\ cfg.spec_versions = {"v1"}
    /\ input = << H("group", T_group), O(T_amplitude_oncc420, T_75), EndOfFile >>
    /\ OneControlCodeWarning(diags, 2, T_amplitude_oncc420)

\* C6: with no filter, <group>amplitude_oncc140=75 produces no diagnostic
\* and stores 75 under the key amplitude_oncc140.
C6_ExtendedControlCode ==
    (/\ pc = "done"
     /\ cfg.spec_versions = {}
     /\ input = << H("group", T_group), O(T_amplitude_oncc140, T_75), EndOfFile >>) =>
        /\ diags = <<>>
        /\ HeaderGet(headers[1], T_amplitude_oncc140) = IntValue(75)

---------------------------------------------------------------------------
(* Properties of macro substitution                                         *)

\* The value token of the step's assignment is $name for a defined name.
RefersTo(name) ==
    /\ name \in DOMAIN defines
    /\ input'[cursor'].b = <<"$">> \o name

\* C7: after #define $name value, defines maps name to the sanitized value
\* of the define, and a later value token $name resolves to that same typed
\* value, with no undefined-variable diagnostic.
C7_SameTypedValue ==
    [][Assigning =>
          /\ \A i \in 1..cursor :
                 input[i].k = "define" => defines[input[i].a] = SanitizeToken(input[i].b)
          /\ \A name \in DOMAIN defines :
                 RefersTo(name) =>
                     /\ HeaderGet(headers'[current_header], input'[cursor'].a) = defines[name]
                     /\ \A j \in 1..Len(NewDiags') :
                            NewDiags'[j].msg.id # "undefined variable"]_vars

---------------------------------------------------------------------------
(* Properties of the deferred curve validation                              *)

\* The indices of the diagnostics about the curve reference of node at.
CurveDiagsAt(at) ==
    { i \in 1..Len(diags) :
        /\ diags[i].tok.at = at
        /\ diags[i].msg.id \in {"no corresponding curve_index found", "negative curve_index"} }

\* Some <curve> header of the document has curve_index = n.
SomeCurveHas(n) ==
    \E i \in 1..Len(headers) :
        /\ headers[i].name = "curve"
        /\ \E j \in 1..Len(headers[i].ops) :
               headers[i].ops[j] = [k |-> T_curve_index, v |-> IntValue(n)]

\* ds[i] is the warning 'no corresponding curve_index found' on the value token of q.
IsNoCurveWarning(d, q) ==
    /\ d.sev = "WARN"
    /\ d.msg.id = "no corresponding curve_index found"
    /\ d.tok = Tok("value", q.at, q.v.s)

\* C8 as stated: for a validated curvecc opcode of value v, v < 7 is
\* accepted unconditionally; for v >= 7 there is no curve-reference
\* diagnostic iff some <curve> header of the document has curve_index = v,
\* and otherwise exactly one warning 'no corresponding curve_index found'
\* on the value token.
C8_CurveReferenceBelow7 ==
    pc = "done" =>
        \A x \in 1..Len(curveccs) :
            LET q == curveccs[x]
            IN  /\ q.v.n < 7 => CurveDiagsAt(q.at) = {}
                /\ q.v.n >= 7 =>
                       /\ SomeCurveHas(q.v.n) <=> CurveDiagsAt(q.at) = {}
                       /\ ~SomeCurveHas(q.v.n) =>
                              /\ Cardinality(CurveDiagsAt(q.at)) = 1
                              /\ \A i \in CurveDiagsAt(q.at) : IsNoCurveWarning(diags[i], q)

\* C8 amended: for a validated curvecc opcode of value v, 0 <= v < 7 is
\* accepted unconditionally and v < 0 draws 'negative curve_index'; for
\* v >= 7 there is no curve-reference diagnostic iff some <curve> header of
\* the document, before or after the reference, has curve_index = v, and
\* otherwise exactly one warning 'no corresponding curve_index found' on the
\* value token.
C8_CurveReference ==
    pc = "done" =>
        \A x \in 1..Len(curveccs) :
            LET q == curveccs[x]
            IN  /\ (0 <= q.v.n /\ q.v.n < 7) => CurveDiagsAt(q.at) = {}
                /\ q.v.n < 0 =>
                       /\ Cardinality(CurveDiagsAt(q.at)) = 1
                       /\ \A i \in CurveDiagsAt(q.at) : diags[i].msg.id = "negative curve_index"
                /\ q.v.n >= 7 =>
                       /\ SomeCurveHas(q.v.n) <=> CurveDiagsAt(q.at) = {}
                       /\ ~SomeCurveHas(q.v.n) =>
                              /\ Cardinality(CurveDiagsAt(q.at)) = 1
                              /\ \A i \in CurveDiagsAt(q.at) : IsNoCurveWarning(diags[i], q)

\* C8 witness: a reference to curve 9 followed by the <curve> header that
\* defines it has been validated without a diagnostic.
C8_Witness ==
    /\ pc = "done"
    /\ input = << H("region", T_region), O(T_amplitude_curvecc110, T_9),
                  H("curve", T_curve), O(T_curve_index, T_9), EndOfFile >>
    /\ Len(curveccs) = 1
    /\ diags = <<>>

\* The node whose validation vlog[i] records is a curvecc assignment.
IsCurveccNode(at) == Contains(ToLower(input[at].a), T_curvecc)

\* C9: the deferred curvecc validations are evaluated exactly once per
\* top-level run, after every node of the top-level file and of its
\* includes has been walked: no curvecc opcode is validated when it is
\* encountered, and the end of an included file does not run the queue.
C9_DeferredOnce ==
    /\ [](/\ pc = "walk" => curveRuns = 0
          /\ pc = "walk" => \A i \in 1..Len(vlog) :
                              vlog[i].when = "immediate" /\ ~IsCurveccNode(vlog[i].at)
          /\ pc = "done" =>
                 /\ curveRuns = 1
                 /\ \A i \in 1..Len(vlog) :
                        IsCurveccNode(vlog[i].at) <=> vlog[i].when = "deferred"
                 /\ \A x \in 1..Len(curveccs) :
                        Cardinality({ i \in 1..Len(vlog) : vlog[i].at = curveccs[x].at }) = 1)
    /\ [][(cursor' = cursor + 1 /\ input'[cursor'].k = "endinc") =>
              (vlog' = vlog /\ diags' = diags /\ pc' = "walk")]_vars

\* C9 witness: a curvecc assignment of a validated included file has been
\* validated at the end of the top-level walk.
C9_Witness ==
    /\ pc = "done"
    /\ curveRuns = 1
    /\ \E x \in 1..Len(curveccs), i \in 1..Len(input) :
           /\ input[i].k = "endinc"
           /\ curveccs[x].at < i
           /\ vlog[Len(vlog)] = [at |-> curveccs[x].at, when |-> "deferred"]

---------------------------------------------------------------------------
(* Properties of repeated validation                                        *)

Occurrences(ds, d) == Cardinality({ i \in 1..Len(ds) : ds[i] = d })

SameMultiset(ds, es) ==
    /\ Len(ds) = Len(es)
    /\ \A i \in 1..Len(ds) : Occurrences(ds, ds[i]) = Occurrences(es, ds[i])

\* C10: validating the same input a second time with the same
\* SFZValidatorConfig object produces the multiset of diagnostics of the
\* first time.
C10_Idempotent == (run = 2 /\ pc = "done") => SameMultiset(first, diags)

---------------------------------------------------------------------------
(* Properties of the document builder                                       *)

\* The step is the callback of a node of kind k.
Visiting(k) == cursor' = cursor + 1 /\ input'[cursor'].k = k

\* The name of the step's assignment after macro substitution and case folding.
FoldedName == ToLower(VarReplace(input'[cursor'].a, defines).text)

WarnsDuplicate ==
    \E i \in 1..Len(NewDiags') :
        NewDiags'[i].sev = "WARN" /\ NewDiags'[i].msg.id = "duplicate opcode"

\* C12: an assignment draws a 'duplicate opcode' warning iff its
\* macro-substituted, case-folded name is already a key of the current
\* header.
C12_DuplicateIffFolded ==
    [][Assigning => (WarnsDuplicate <=> HeaderHas(headers[current_header], FoldedName))]_vars

\* C13: every opcode key of every header of the document is lowercase, in
\* every state of the walk; <region>Volume=3 is stored under volume and
\* set_cc$KICKTUNE=63, with KICKTUNE defined as 40, under set_cc40.
C13_LowercaseKeys ==
    /\ \A i \in 1..Len(headers) : \A j \in 1..Len(headers[i].ops) :
           \A x \in 1..Len(headers[i].ops[j].k) : headers[i].ops[j].k[x] \notin Upper
    /\ (cursor = 2 /\ input = << H("region", T_region), O(T_Volume, T_3) >>) =>
           headers[1].ops = << [k |-> T_volume, v |-> IntValue(3)] >>
    /\ (cursor = 3 /\ input = << D(T_KICKTUNE, T_40), H("region", T_region),
                                 O(T_set_cc_ref, T_63) >>) =>
           headers[1].ops = << [k |-> T_set_cc40, v |-> IntValue(63)] >>

\* C13 witness: set_cc$KICKTUNE=63 has been stored under set_cc40.
C13_Witness ==
    /\ input = << D(T_KICKTUNE, T_40), H("region", T_region), O(T_set_cc_ref, T_63) >>
    /\ cursor = 3
    /\ HeaderHas(headers[1], T_set_cc40)

\* C14: a header, also a repeated <global>, draws no cardinality
\* diagnostic, is appended to the document and becomes the current header.
C14_NoCardinality ==
    [][Visiting("header") =>
          /\ \A i \in 1..Len(NewDiags') : NewDiags'[i].msg.id # "only one header allowed"
          /\ headers' = Append(headers, NewHeader(input'[cursor'].tag))
          /\ current_header' = Len(headers')]_vars

\* The step is an #include, in a validated file with a base directory, of a
\* path whose load fails with status st.
IncludeFails(st) ==
    /\ Visiting("include")
    /\ cfg.validate
    /\ cfg.rel_path
    /\ FileStatus(SanitizeToken(input'[cursor'].a).s) = st

\* The step made one error, of message id, on the path token, changed
\* neither the config nor the document's headers, and the walk goes on.
OneIncludeError(id) ==
    /\ Len(NewDiags') = 1
    /\ NewDiags'[1].sev = "ERR"
    /\ NewDiags'[1].msg.id = id
    /\ NewDiags'[1].tok = Tok("path", cursor', SanitizeToken(input'[cursor'].a).s)
    /\ NewDiags'[1].file = cfg.file_name
    /\ cfg' = cfg
    /\ stack' = stack
    /\ headers' = headers
    /\ current_header' = current_header
    /\ pc' = "walk"

\* C15 as stated: an #include whose target is not found or does not parse
\* draws exactly one diagnostic whose message starts with 'error loading
\* include', and the walk of the including file goes on.
C15_ErrorLoadingInclude ==
    [][(IncludeFails("missing") \/ IncludeFails("bad")) =>
          OneIncludeError("error loading include")]_vars

\* C15 amended: in a validated file, an #include whose target is not found
\* draws exactly one error 'could not load include, file not found', and
\* one whose content does not parse exactly one error 'error loading
\* include, ...'; nothing is raised, the config of the including file is in
\* force again and the walk goes on.
C15_IncludeFailure ==
    [][/\ IncludeFails("missing") => OneIncludeError("could not load include, file not found")
       /\ IncludeFails("bad") => OneIncludeError("error loading include")]_vars

\* C15 witness: #include "bad.sfz" <region> volume=4 has been parsed: one
\* error for the include, the assignment after it is stored.
C15_Witness ==
    /\ pc = "done"
    /\ input = << I(T_bad_sfz), H("region", T_region), O(T_volume, T_4), EndOfFile >>
    /\ Len(diags) = 1
    /\ diags[1].msg.id = "error loading include"
    /\ headers = << [name |-> "region", ops |-> << [k |-> T_volume, v |-> IntValue(4)] >>] >>

IsHeaderNode(e) == e.k = "header"

IsDefineNode(e) == e.k = "define"

\* C16: the walk returns a document that has every header of the input, in
\* the order of the input, and every define of the input, whatever
\* diagnostics were made.
C16_FullDocument ==
    pc = "done" =>
        /\ Len(headers) = Len(SelectSeq(input, IsHeaderNode))
        /\ \A i \in 1..Len(headers) : headers[i].name = SelectSeq(input, IsHeaderNode)[i].tag
        /\ \A i \in 1..Len(input) : IsDefineNode(input[i]) => input[i].a \in DOMAIN defines

\* The end of the stem before the control-code spelling (_oncc, _cc or cc)
\* whose cc is at i.
StemEnd(op, i) ==
    IF i > 3 /\ SubSeq(op, i - 3, i - 1) = <<"_","o","n">> THEN i - 4
    ELSE IF i > 1 /\ op[i - 1] = "_" THEN i - 2
    ELSE i - 1

\* op with the control-code spelling at i replaced by sp.
Respell(op, i, sp) == (SubSeq(op, 1, StemEnd(op, i)) \o sp) \o SubSeq(op, i + 2, Len(op))

\* Some other control-code spelling of op is in the rule table.
HasAlias(op) ==
    \E i \in 1..(Len(op) - 1) :
        /\ op[i] = "c" /\ op[i + 1] = "c"
        /\ \E sp \in { <<"_","o","n","c","c">>, <<"_","c","c">>, <<"c","c">> } :
               Respell(op, i, sp) # op /\ InTable(Respell(op, i, sp))

\* C17: an assignment whose canonical name is not in the rule table, has cc
\* but not curvecc, and is in the table under another control-code spelling
\* draws exactly one warning 'undocumented alias' on the opcode-name token
\* and no 'unknown opcode' warning (<region>labelcc5=awesome).
C17_UndocumentedAlias ==
    [][(/\ Assigning
        /\ Fresh
        /\ UnknownName(FoldedName)
        /\ ~Contains(FoldedName, T_curvecc)
        /\ HasAlias(Sub(FoldedName).template)) =>
          /\ \A i \in 1..Len(NewDiags') : NewDiags'[i].msg.id # "unknown opcode"
          /\ Cardinality({ i \in 1..Len(NewDiags') :
                             /\ NewDiags'[i].sev = "WARN"
                             /\ NewDiags'[i].msg.id = "undocumented alias"
                             /\ NewDiags'[i].tok = Tok("opcode", cursor', FoldedName) }) = 1]_vars

\* The positions of the $name references of text, and the name at one.
RefsOf(text) ==
    { i \in 1..(Len(text) - 1) : text[i] = "$" /\ text[i + 1] \in WordChar }

RefName(text, i) == SubSeq(text, i + 1, WordRunEnd(text, i + 1))

MissingRefs(text, defs) == { i \in RefsOf(text) : RefName(text, i) \notin DOMAIN defs }

\* The undefined-variable errors of the step about the token tok.
UndefinedErrors(tok) ==
    { i \in 1..Len(NewDiags') :
        /\ NewDiags'[i].sev = "ERR"
        /\ NewDiags'[i].msg.id = "undefined variable"
        /\ NewDiags'[i].tok = tok }

HeaderVersionWarnings ==
    { i \in 1..Len(NewDiags') :
        /\ NewDiags'[i].sev = "WARN"
        /\ NewDiags'[i].msg.id = "header spec not in"
        /\ NewDiags'[i].tok = Tok("header", cursor', input'[cursor'].a) }

\* C19: in a validated file, a header whose version is not in the active
\* filter draws exactly one warning 'header spec <ver> not in <filter>' and
\* is still appended and made current; with no filter there is no
\* header-version warning.
C19_HeaderVersion ==
    [][(Visiting("header") /\ cfg.validate) =>
          /\ (cfg.spec_versions # {}
                /\ header_meta(input'[cursor'].tag).ver \notin cfg.spec_versions) =>
                 /\ Cardinality(HeaderVersionWarnings) = 1
                 /\ headers' = Append(headers, NewHeader(input'[cursor'].tag))
                 /\ current_header' = Len(headers')
          /\ cfg.spec_versions = {} => HeaderVersionWarnings = {}]_vars

---------------------------------------------------------------------------
(* Properties of the sample-path validator                                  *)

\* The directory that holds segment i of parts: what the segments before
\* it resolve to.
ActualParent(parts, i) == Resolve(SampleDir, SubSeq(parts, 1, i - 1), 1, fold).at

\* Segment i of parts is a name, and its parent's listing does not have it
\* spelled so.
Misspelled(parts, i) ==
    /\ parts[i] # <<".",".">>
    /\ parts[i] \notin listdir(ActualParent(parts, i))

\* C20: a value beginning with '*' is accepted; otherwise, with a base
\* directory set, the validator returns 'file not found' when the path
\* resolved against the sample root does not exist, and when it exists
\* returns 'case does not match' iff some segment is not an exact member of
\* the listing of its actual parent directory, and nothing when every
\* segment matches.
C20_SamplePath ==
    phase = "validated" =>
        LET parts == PathParts(nm)
            exists == Resolve(SampleDir, parts, 1, fold).st = "ok"
            mismatch == \E i \in 1..Len(parts) : Misspelled(parts, i)
        IN  /\ nm[1] = "*" => res.st = "accepted"
            /\ (nm[1] # "*" /\ cfg.rel_path) =>
                   /\ ~exists => res.st = "file not found"
                   /\ exists => (res.st = "case does not match" <=> mismatch)
                   /\ (exists /\ ~mismatch) => res.st = "accepted"

---------------------------------------------------------------------------
(* Properties of the rules of irregular names and of the key bound          *)

\* The assignment of the step is name=value, not a duplicate.
Assigns(name, value) ==
    /\ Assigning
    /\ Fresh
    /\ input'[cursor'].a = name
    /\ input'[cursor'].b = value

\* C21: with no version filter, var01_mod=mult, var01_eq1gain=5,
\* hint_ram_based=1 and cutoff_mod=mult resolve to the wildcard rules
\* varNN_mod, the var target rule, hint_* and *_mod: each produces no
\* diagnostic.
C21_IrregularFamilies ==
    [][(/\ cfg.spec_versions = {}
        /\ \/ Assigns(T_var01_mod, T_mult)
           \/ Assigns(T_var01_eq1gain, T_5)
           \/ Assigns(T_hint_ram_based, T_1)
           \/ Assigns(T_cutoff_mod, T_mult)) => NewDiags' = <<>>]_vars

\* The step made one warning, of message id, on the value token.
OneValueWarning(id) ==
    /\ Len(NewDiags') = 1
    /\ NewDiags'[1].sev = "WARN"
    /\ NewDiags'[1].msg.id = id
    /\ NewDiags'[1].tok = Tok("value", cursor', input'[cursor'].b)

\* C23: for hikey and lokey, -1 draws no diagnostic when no version filter
\* is active, -1 draws '-1 is only valid from V2 onward' when the filter is
\* v1 only, given as a list or as a set, and an integer outside -1..127 is
\* reported as out of range.
C23_KeyBound ==
    [][\A name \in {T_hikey, T_lokey} :
          /\ (Assigns(name, T_m1) /\ cfg.spec_versions = {}) => NewDiags' = <<>>
          /\ (Assigns(name, T_m1) /\ cfg.spec_versions = {"v1"}) =>
                 OneValueWarning("-1 is only valid from V2 onward")
          /\ Assigns(name, T_128) => OneValueWarning("not in range")]_vars

---------------------------------------------------------------------------
(* Properties of the order of the engine's checks                           *)

\* The message ids of the checks that fail for name=v under config c, in
\* the order normalization, rule lookup, value type, version filter, value
\* validator; a check after a failed normalization or lookup has no rule to
\* look at.
FailingChecks(name, v, c) ==
    IF ~InTable(name) /\ Sub(name).st = "error" THEN <<"unexpected number">>
    ELSE IF ~InTable(name) /\ Sub(name).st = "badcc" THEN <<"not a valid control code">>
    ELSE IF ~KnownName(name) THEN <<"unknown opcode">>
    ELSE LET rule == RuleFor(name)
         IN  ((IF rule.type # "" /\ ~IsInstance(v, rule.type)
               THEN <<"expected type">> ELSE <<>>)
              \o (IF VersionExcluded(rule.ver, c)
                  THEN <<"opcode is only in sfz spec">> ELSE <<>>))
             \o (IF Validate(rule.validator, v, c) # NoMsg
                 THEN <<Validate(rule.validator, v, c).id>> ELSE <<>>)

---------------------------------------------------------------------------
(* Properties of the header mapping                                         *)

\* C24: an assignment under a header stores the sanitized value under the
\* folded name: a name the header has keeps its place and gets the new
\* value, a new name is added after the others, and no other entry of any
\* header changes; no other step changes the entries of a header.
C24_OrderedLastWrite ==
    [][/\ (Visiting("opcode") /\ current_header # 0) =>
            \A name \in {FoldedName} :
            \A v \in {StoredValue(input'[cursor'], defines)} :
                LET old == headers[current_header].ops
                    new == headers'[current_header].ops
                IN  IF \E i \in 1..Len(old) : old[i].k = name
                    THEN /\ Len(new) = Len(old)
                         /\ \A i \in 1..Len(old) :
                                /\ new[i].k = old[i].k
                                /\ new[i].v = IF old[i].k = name THEN v ELSE old[i].v
                    ELSE new = Append(old, [k |-> name, v |-> v])
       /\ \A i \in 1..Len(headers) :
              (i # current_header \/ ~Visiting("opcode")) =>
                  (i <= Len(headers') /\ headers'[i] = headers[i])]_vars

\* C24 witness: <region> volume=4 hivel=$k Volume=3 has been parsed: volume
\* is still the first name and holds 3, the value of its last assignment.
C24_Witness ==
    /\ pc = "done"
    /\ input = << H("region", T_region), O(T_volume, T_4), O(T_hivel, T_ref_k),
                  O(T_Volume, T_3), EndOfFile >>
    /\ headers[1].ops = << [k |-> T_volume, v |-> IntValue(3)],
                           [k |-> T_hivel, v |-> StrValue(T_ref_k)] >>

---------------------------------------------------------------------------
(* Properties of the include context                                        *)

\* C25: while an included file is walked the config has the included
\* file's path as file name, validate as the including config's
\* check_includes and validate_curvecc off, and the diagnostics of a step
\* inside it carry that path; the step that ends an include, loaded or
\* failed, leaves the config the including file had at the directive.
C25_ScopedContext ==
    [][/\ stack' # <<>> =>
            LET inc == stack'[Len(stack')]
            IN  /\ cfg'.file_name = inc.path
                /\ cfg'.validate = inc.conf.check_includes
                /\ ~cfg'.validate_curvecc
       /\ Len(stack') > Len(stack) => stack' = Append(stack, [conf |-> cfg, path |-> cfg'.file_name])
       /\ Len(stack') < Len(stack) =>
            /\ cfg' = stack[Len(stack)].conf
            /\ stack' = SubSeq(stack, 1, Len(stack) - 1)
       /\ (Visiting("include") /\ Len(stack') = Len(stack)) => cfg' = cfg
       /\ (stack # <<>> /\ Len(stack') = Len(stack)) =>
            \A i \in 1..Len(NewDiags') : NewDiags'[i].file = stack[Len(stack)].path]_vars

\* C25 witness: #include "a.sfz" has been walked with include checking on,
\* a.sfz being volume=4, and volume=4 follows in the including file: the
\* first error carries a.sfz, the second the including file's name.
C25_Witness ==
    /\ pc = "done"
    /\ cfg.check_includes
    /\ input = << I(T_a_sfz), O(T_volume, T_4), EndOfInclude, O(T_volume, T_4), EndOfFile >>
    /\ Len(diags) = 2
    /\ diags[1].file = T_a_sfz
    /\ diags[2].file = T_main
    /\ cfg.file_name = T_main
    /\ cfg.validate_curvecc

\* The paths of the #include directives of evs, in the order of the walk.
RECURSIVE IncludePaths(_)
IncludePaths(evs) ==
    IF evs = <<>> THEN <<>>
    ELSE IF Head(evs).k = "include"
    THEN <<SanitizeToken(Head(evs).a).s>> \o IncludePaths(Tail(evs))
    ELSE IncludePaths(Tail(evs))

\* C27: when the walk is over, Document.includes is the paths of the
\* #include directives in the order the depth-first walk met them, one
\* entry per directive, loaded or not.
C27_DeclarationOrder ==
    pc = "done" => includes = IncludePaths(input)

---------------------------------------------------------------------------
(* Properties of default_path                                               *)

\* The callback i of evs is an assignment to default_path under a header
\* (every header of the sample vocabulary is accepted).
SetsDefaultPath(evs, i) ==
    /\ evs[i].k = "opcode"
    /\ ToLower(evs[i].a) = T_default_path
    /\ \E j \in 1..(i - 1) : evs[j].k = "header"

\* The config with the default_path of the most recent such assignment of
\* the walk before callback n, if there is one.
WithLatestDefaultPath(c, evs, n) ==
    LET set == { i \in 1..(n - 1) : SetsDefaultPath(evs, i) }
    IN  IF set = {} THEN [c EXCEPT !.default_path = NoValue]
        ELSE LET last == CHOOSE i \in set : \A j \in set : j <= i
             IN  [c EXCEPT !.default_path = SanitizeToken(evs[last].b)]

\* C26: a validated sample assignment is checked against the base directory
\* joined with the default_path of the most recent default_path assignment
\* of the walk, and against the base directory alone when there has been
\* none.
C26_DefaultPathOrdering ==
    [][Assigns(T_sample, T_c) =>
          \A outcome \in {SampleValidate(T_c, WithLatestDefaultPath(cfg, input', cursor'), fold)} :
              IF outcome = "accepted" THEN NewDiags' = <<>> ELSE OneValueWarning(outcome)]_vars

---------------------------------------------------------------------------
(* Properties of the HeaderList                                             *)

\* The number of stored headers named tag.
Stored(list, tag) == Cardinality({ i \in 1..Len(list) : list[i].name = tag })

\* C28: after every operation on a HeaderList, len(list) is the number of
\* stored headers and counts[name] the number of stored headers of that
\* name, and an operation that raises leaves the stored headers and the
\* counts as they were.
C28_Bookkeeping ==
    [][phase = "headerlist" =>
          /\ HeaderListLen(counts') = Len(headers')
          /\ \A tag \in HeaderTags : counts'[tag] = Stored(headers', tag)
          /\ res'.st # "ok" => (headers' = headers /\ counts' = counts)]_vars

---------------------------------------------------------------------------
(* Properties of lint                                                       *)

\* The file ended at the grammar: no callback was made for it.
GrammarFailed == pc = "done" /\ cursor = 0

\* C22: in a lint run a file that fails at the grammar has exactly one
\* diagnostic, an error for that file, and no file makes the run raise, so
\* that the files after it are linted.
C22_LintIsolation ==
    phase \in LintPhases =>
        /\ pc # "raised"
        /\ GrammarFailed =>
               /\ Len(diags) = 1
               /\ diags[1].sev = "ERR"
               /\ diags[1].file = cfg.file_name

\* The transform of a file is about to make its first callback.
FileStarts == pc = "walk" /\ cursor = 0

\* C30: every file of a lint run, an AriaElement file of an XML program
\* included, starts on a document of its own: no header, no header count,
\* no include, no define but those of the program, and no default_path of a
\* file linted before it.
C30_FileIndependence ==
    (phase \in LintPhases /\ FileStarts) =>
        /\ headers = <<>>
        /\ \A t \in HeaderTags : counts[t] = 0
        /\ includes = <<>>
        /\ defines = ProgramDefines(phase)
        /\ cfg.default_path = NoValue

============================================================================
